---------------------------- MODULE Spec2Model ----------------------------
(***************************************************************************)
(* Model of the Pyneapple fitting engine: argument generation              *)
(* (get_pixel_args), the fit dispatchers (multithreader, fit), the         *)
(* per-voxel fit functions, segmented IVIM fitting and the evaluation of   *)
(* spectral fit results (peak detection, fractions, AUC regimes).          *)
(***************************************************************************)
EXTENDS Integers, Sequences, FiniteSets, TLC

(***************************************************************************)
(* Bounds of the model.                                                    *)
(***************************************************************************)
\* voxels of the grid along x; the grid has shape (MaxX, 1, 1, B)
MaxX == 3
\* largest segmentation label of a mask
MaxLabel == 2
\* largest worker count handed to a dispatcher
MaxPools == 2
\* number of diffusion bins (boundaries n_bins) of the spectral models
NBins == 7
\* largest entry of a fitted weight vector, in units of 0.05
MaxWeight == 3

(***************************************************************************)
(* Voxel grid and segmentation mask.                                       *)
(***************************************************************************)
\* coordinates (i, j, k) of the grid
Coords == {<<i, 0, 0>> : i \in 0..(MaxX - 1)}

\* decay signals a voxel can hold; a negative entry stands for a non-finite
\* sample, on which the solvers fail
Signals == {<<3, 1>>, <<5, 2>>, <<-1, 0>>}

Grids == [Coords -> Signals]

Masks == [Coords -> 0..MaxLabel]

\* masks after "nii_seg.array[nii_seg.array > 0] = 1" (fitting_pixelwise)
BinaryMasks == {m \in Masks : \A c \in Coords : m[c] <= 1}

\* position of a coordinate in C (row-major) order, the order of np.nonzero
Rank(c) == c[1]

\* np.nonzero(np.squeeze(seg, axis=3)) zipped to coordinates: the
\* coordinates with a nonzero mask value, in row-major order
RECURSIVE NonzeroFrom(_, _)
NonzeroFrom(seg, r) ==
    IF r >= Cardinality(Coords) THEN <<>>
    ELSE LET c == CHOOSE x \in Coords : Rank(x) = r
         IN  IF seg[c] # 0 THEN <<c>> \o NonzeroFrom(seg, r + 1)
             ELSE NonzeroFrom(seg, r + 1)

Nonzero(seg) == NonzeroFrom(seg, 0)

\* zip(a, b): pairs the n-th element of a with the n-th of b, as long as
\* the shorter one
Min(a, b) == IF a <= b THEN a ELSE b

Zip2(a, b) == [n \in 1..Min(Len(a), Len(b)) |-> <<a[n], b[n]>>]


(***************************************************************************)
(* State.                                                                  *)
(***************************************************************************)
VARIABLES
    img,            \* VoxelGrid: coordinate -> decay signal
    seg,            \* SegmentationMask: coordinate -> label
    dispatcher,     \* which dispatcher the caller uses
    fit_kind,       \* which fit function is bound
    fixed_results,  \* per-voxel maps handed to get_pixel_args as *fixed_results
    pixel_args,     \* the argument stream of the current call
    n_pools,        \* <<>> for None, <<n>> for the integer n
    multi_threading,\* the multi_threading flag (debug = ~multi_threading)
    pc,             \* position of the dispatcher call
    pos,            \* arguments consumed so far (loop index / tasks handed out)
    results,        \* the list the dispatcher builds and returns
    busy,           \* pool worker -> index of the task it executes, 0 if idle
    slots,          \* pool: task index -> outcome of the task, <<>> if open
    error,          \* name of the exception that left the call, "" if none
    prev,           \* outcome of the caller's previous dispatch, <<>> if none
    stage,          \* segmented fitting: 0 no segmented run, 1, 2, 3 evaluated
    options,        \* IVIMSegmentedParams.options: fixed_t1, reduced_b_values
    evaluated,      \* what was handed to Results.eval_results, <<>> if nothing
    params_class,   \* spectral parameter class: "NNLS" or "NNLSreg"
    reg_order,      \* NNLSregParams.reg_order
    weights,        \* fitted weight vector of the voxel (element[1])
    rpc,            \* position of the evaluation of the voxel
    rerror,         \* exception that left the evaluation, "" if none
    fit_d,          \* fit_results.d[key]
    fit_f,          \* fit_results.f[key], numerators of the fractions
    fit_den,        \* common denominator of fit_results.f[key]: sum(f_values)
    d_values,       \* apply_AUC_to_results: coefficients still to analyse
    f_values,       \* apply_AUC_to_results: fractions still to analyse
    d_AUC,          \* d_AUC[key]: per regime <<numerator, denominator>>
    f_AUC,          \* f_AUC[key]: per regime numerator over fit_den
    regime,         \* index of the regime boundary analysed next
    params,         \* the Parameters object in use, <<>> before construction
    json_file,      \* configuration file: <<>> or a sequence of <<key path, value>>
    loaded,         \* outcome of load_from_json, <<>> before the call
    ppc,            \* position of the caller of the parameter object
    perror,         \* exception that reached the caller, "" if none
    call,           \* last call on the parameter object and its outcome, <<>> if none
    n_components,   \* IVIMParams.n_components of the evaluating object
    TM,             \* IVIMParams.TM: <<>> for None, <<t>> for the mixing time t
    version,        \* which code evaluates: "parameters" or "fit" (first version)
    fit_list,       \* the result list handed to eval_fitting_results
    fit_results,    \* outcome of the evaluation, <<>> before the call
    ipc,            \* position of the evaluation of the IVIM results
    fd_class,       \* FitData of "fit" (fit/fit.py) or "fitdata" (fitting/fitdata.py)
    fd_img,         \* FitData.img: <<>> for None, <<grid>> when supplied
    fd_seg,         \* FitData.seg: <<>> for None, <<mask>> when supplied
    fd_b_values,    \* b_values of the parameters of the FitData object
    fd_method,      \* "pixel" or "segmentation": the fit method called, "" before
    fd_mt,          \* the multi_threading flag of the call
    fd_pc,          \* position of the fit call
    fd_stream,      \* the argument stream: what each element is generated from
    fd_pos,         \* elements of the stream consumed so far
    fd_busy,        \* pool worker -> index of the task it executes, 0 if idle
    fd_slots,       \* pool: task index -> <<outcome>>, <<>> while open
    fd_fitted,      \* the fit function invocations so far: <<idx, signal>>
    fd_out,         \* the result list the dispatcher returned
    fd_results,     \* FitData.fit_results / results: <<>> until written
    fd_error,       \* exception that left the fit call, "" if none
    re_results,     \* a result list of a fit run
    re_permuted,    \* the same results in another order
    re_first,       \* <<outcome>> of the reassembly of re_results, <<>> before
    re_second,      \* <<outcome>> of the reassembly of re_permuted, <<>> before
    seg_config,     \* what the IVIMSegmentedParams object was constructed from
    seg_params,     \* the IVIMSegmentedParams object, <<>> if there is none
    seg_call,       \* the last set_options call after construction, <<>> if none
    seg_calls       \* set_options calls after construction: 0, 1, 2 for more

dvars == <<img, seg, dispatcher, fit_kind, fixed_results, pixel_args, n_pools,
           multi_threading, pc, pos, results, busy, slots, error, prev>>

svars == <<stage, options, evaluated>>

rvars == <<params_class, reg_order, weights, rpc, rerror, fit_d, fit_f, fit_den,
           d_values, f_values, d_AUC, f_AUC, regime>>

pvars == <<params, json_file, loaded, ppc, perror, call>>

ivars == <<n_components, TM, version, fit_list, fit_results, ipc>>

fvars == <<fd_class, fd_img, fd_seg, fd_b_values, fd_method, fd_mt, fd_pc,
           fd_stream, fd_pos, fd_busy, fd_slots, fd_fitted, fd_out, fd_results,
           fd_error>>

avars == <<re_results, re_permuted, re_first, re_second>>

ovars == <<seg_config, seg_params, seg_call, seg_calls>>

xvars == <<ivars, fvars, avars, ovars>>

vars == <<dvars, svars, rvars, pvars, xvars>>

(***************************************************************************)
(* Argument generation.                                                    *)
(***************************************************************************)
\* ParametersGetPixelArgs with the signal generator running over the
\* coordinates in the opposite order
ParametersGetPixelArgsReversed(image, mask) ==
    LET nz       == Nonzero(mask)
        indexes  == nz
        signals  == [n \in 1..Len(nz) |-> image[nz[Len(nz) + 1 - n]]]
    IN  Zip2(indexes, signals)

\* Parameters.get_pixel_args: zip of a coordinate generator and a signal
\* generator, both driven by np.nonzero of the squeezed mask
ParametersGetPixelArgs(image, mask) ==
    LET nz       == Nonzero(mask)
        indexes  == nz
        signals  == [n \in 1..Len(nz) |-> image[nz[n]]]
    IN  Zip2(indexes, signals)

\* FitData.Parameters.get_pixel_args of the first version (fit.py): with
\* debug the stream is a zip over ONE generator of (coordinate, signal)
\* pairs, so every element is a 1-tuple holding the pair
LegacyGetPixelArgs(image, mask, debug) ==
    LET nz == Nonzero(mask)
    IN  IF debug
        THEN [n \in 1..Len(nz) |-> << <<nz[n], image[nz[n]]>> >>]
        ELSE Zip2(nz, [n \in 1..Len(nz) |-> image[nz[n]]])

\* SegmentedGetPixelArgs reading the fixed values at the mirrored voxel
SegmentedGetPixelArgsMirrored(image, mask, fixed, fixed_t1) ==
    LET nz      == Nonzero(mask)
        indexes == nz
        signals == [n \in 1..Len(nz) |-> image[nz[n]]]
        adc_s   == [n \in 1..Len(nz) |-> fixed[1][nz[Len(nz) + 1 - n]]]
        t_ones  == [n \in 1..Len(nz) |-> fixed[2][nz[Len(nz) + 1 - n]]]
    IN  IF fixed_t1
        THEN [n \in 1..Len(nz) |->
                 <<indexes[n], signals[n], adc_s[n], t_ones[n]>>]
        ELSE [n \in 1..Len(nz) |-> <<indexes[n], signals[n], adc_s[n]>>]

\* IVIMSegmentedParams.get_pixel_args: coordinates, signals and the fixed
\* value(s) of the same coordinate, zipped
SegmentedGetPixelArgs(image, mask, fixed, fixed_t1) ==
    LET nz      == Nonzero(mask)
        indexes == nz
        signals == [n \in 1..Len(nz) |-> image[nz[n]]]
        adc_s   == [n \in 1..Len(nz) |-> fixed[1][nz[n]]]
        t_ones  == [n \in 1..Len(nz) |-> fixed[2][nz[n]]]
    IN  IF fixed_t1
        THEN [n \in 1..Len(nz) |->
                 <<indexes[n], signals[n], adc_s[n], t_ones[n]>>]
        ELSE [n \in 1..Len(nz) |-> <<indexes[n], signals[n], adc_s[n]>>]


(***************************************************************************)
(* Fit functions.                                                          *)
(***************************************************************************)
RECURSIVE SumSeq(_)
SumSeq(s) == IF s = <<>> THEN 0 ELSE Head(s) + SumSeq(Tail(s))

Zeros(n) == [b \in 1..n |-> 0]

\* fit functions of FitModel (fit.py) and of the IVIM models
SpectralKinds == {"NNLS", "NNLS_reg_CV", "NNLS_reg"}

ExponentialKinds == {"mono", "mono_T1", "multi_exp"}

IVIMKinds == {"IVIM", "IVIMT1", "IVIMFixedComponent", "IVIMFixedComponentT1"}

FitKinds == SpectralKinds \cup ExponentialKinds \cup IVIMKinds

\* number of per-voxel arguments a fit function takes after idx and signal
Arity(kind) ==
    CASE kind = "IVIMFixedComponent"   -> 1
      [] kind = "IVIMFixedComponentT1" -> 2
      [] OTHER                         -> 0

\* length of the vector a fit function returns: basis.shape[1] for the
\* spectral models, len(x0) for the exponential ones
OutLen(kind) ==
    CASE kind \in SpectralKinds -> NBins
      [] kind = "mono"          -> 2
      [] kind = "mono_T1"       -> 3
      [] kind = "multi_exp"     -> 4
      [] kind = "IVIM"          -> 2
      [] kind = "IVIMT1"        -> 3
      [] OTHER                  -> 3

\* the library solver (scipy nnls / curve_fit) raises on a signal with a
\* non-finite sample
SolverFails(signal) == \E n \in 1..Len(signal) : signal[n] < 0

\* the vector the library solver finds otherwise: a function of the signal
\* and of the per-voxel constants
Solution(kind, signal, extras) ==
    [b \in 1..OutLen(kind) |->
        IF b = 1 THEN signal[1] + SumSeq(extras)
        ELSE IF b = 2 /\ Len(signal) >= 2 THEN signal[2]
        ELSE 0]

Returned(value) == [raised |-> FALSE, value |-> value]

Raised(why) == [raised |-> TRUE, value |-> why]

\* FitModel.NNLS / NNLS_reg_CV / NNLS_reg: try the solver, except: zeros
FitSpectral(kind, idx, signal) ==
    IF SolverFails(signal)
    THEN Returned(<<idx, Zeros(NBins)>>)
    ELSE Returned(<<idx, Solution(kind, signal, <<>>)>>)

\* FitModel.mono / mono_T1 / multi_exp: curve_fit is called bare, its
\* exception leaves the function
FitExponential(kind, idx, signal) ==
    IF SolverFails(signal)
    THEN Raised("RuntimeError")
    ELSE Returned(<<idx, Solution(kind, signal, <<>>)>>)

\* IVIM.fit / IVIMFixedComponent.fit: a failed fit gives the zero vector
FitIVIM(kind, idx, signal, extras) ==
    IF SolverFails(signal)
    THEN Returned(<<idx, Zeros(OutLen(kind))>>)
    ELSE Returned(<<idx, Solution(kind, signal, extras)>>)

\* one call fit_function(idx, signal, *extras) of the bound fit function;
\* a call with the wrong number of positional arguments is a TypeError
FitFunction(kind, idx, signal, extras) ==
    IF Len(extras) # Arity(kind) THEN Raised("TypeError")
    ELSE IF kind \in SpectralKinds THEN FitSpectral(kind, idx, signal)
    ELSE IF kind \in ExponentialKinds THEN FitExponential(kind, idx, signal)
    ELSE FitIVIM(kind, idx, signal, extras)


(***************************************************************************)
(* Dispatchers.                                                            *)
(***************************************************************************)
Dispatchers == {"multithreader", "fit", "fit_legacy"}

\* worker counts a caller can pass: None, 0, 1 .. MaxPools
PoolChoices == {<<>>} \cup {<<n>> : n \in 0..MaxPools}

\* Python truth value of n_pools
Truthy(p) == p # <<>> /\ p # <<0>>

\* Pool(None) starts one worker per core
PoolSize(p) == IF p = <<>> THEN MaxPools ELSE p[1]

\* multithreader: "if n_pools:" starmap_handler, else the loop;
\* starmap_handler binds results_list only "if number_pools != 0"
MultithreaderEntry(p) ==
    IF Truthy(p)
    THEN IF p # <<0>> THEN "pool" ELSE "UnboundLocalError"
    ELSE "seq"

\* fit (fit/fit.py): "if multi_threading: if n_pools != 0: Pool...",
\* "else:" the loop; results is bound in the two inner branches only
FitEntry(p, mt) ==
    IF mt
    THEN IF p # <<0>> THEN "pool" ELSE "UnboundLocalError"
    ELSE "seq"

\* fit (fit.py): "if debug:" the loop, "else: if nPools != 0: Pool..."
LegacyFitEntry(p, debug) ==
    IF debug THEN "seq"
    ELSE IF p # <<0>> THEN "pool" ELSE "UnboundLocalError"

Entry(d, p, mt) ==
    CASE d = "multithreader" -> MultithreaderEntry(p)
      [] d = "fit"           -> FitEntry(p, mt)
      [] OTHER               -> LegacyFitEntry(p, ~mt)

\* the call the sequential loop of a dispatcher makes for one element
MultithreaderLoopCall(kind, element) ==
    FitFunction(kind, element[1], element[2], SubSeq(element, 3, Len(element)))

FitLoopCall(kind, element) ==
    FitFunction(kind, element[1], element[2], <<>>)

LegacyFitLoopCall(kind, arg) ==
    FitFunction(kind, arg[1][1], arg[1][2], <<>>)

LoopCall(d, kind, element) ==
    CASE d = "multithreader" -> MultithreaderLoopCall(kind, element)
      [] d = "fit"           -> FitLoopCall(kind, element)
      [] OTHER               -> LegacyFitLoopCall(kind, element)

\* the call pool.starmap makes for one element: func(*element)
StarmapCall(kind, element) ==
    FitFunction(kind, element[1], element[2], SubSeq(element, 3, Len(element)))

\* start of a dispatcher call with worker count p and flag mt
Enter(p, mt) ==
    LET e == Entry(dispatcher, p, mt)
    IN  /\ n_pools' = p
        /\ multi_threading' = mt
        /\ pos' = 0
        /\ results' = <<>>
        /\ busy' = [w \in 1..(IF e = "pool" THEN PoolSize(p) ELSE 0) |-> 0]
        /\ slots' = [n \in 1..(IF e = "pool" THEN Len(pixel_args') ELSE 0)
                        |-> <<>>]
        /\ pc' = IF e \in {"seq", "pool"} THEN e ELSE "raised"
        /\ error' = IF e \in {"seq", "pool"} THEN "" ELSE e

\* a repeated dispatch follows a sequential one and uses the pool
RepeatOk(p, mt) ==
    prev # <<>> => Entry(dispatcher, p, mt) = "pool"

\* multithreader(func, arg_list, n_pools)
CallMultithreader(p) ==
    /\ pc = "idle"
    /\ dispatcher = "multithreader"
    /\ RepeatOk(p, FALSE)
    /\ pixel_args' = pixel_args
    /\ Enter(p, FALSE)
    /\ UNCHANGED <<img, seg, dispatcher, fit_kind, fixed_results, prev, svars, rvars, pvars, xvars>>

\* fit(fit_function, element_args, n_pools, multi_threading)
CallFit(p, mt) ==
    /\ pc = "idle"
    /\ dispatcher = "fit"
    /\ RepeatOk(p, mt)
    /\ pixel_args' = pixel_args
    /\ Enter(p, mt)
    /\ UNCHANGED <<img, seg, dispatcher, fit_kind, fixed_results, prev, svars, rvars, pvars, xvars>>

\* FitData.fitting_pixelwise(debug), second part:
\* fit(fit_function, pixel_args, nPools, debug)
CallFitLegacy(p) ==
    /\ pc = "idle"
    /\ dispatcher = "fit_legacy"
    /\ RepeatOk(p, multi_threading)
    /\ pixel_args' = pixel_args
    /\ Enter(p, multi_threading)
    /\ UNCHANGED <<img, seg, dispatcher, fit_kind, fixed_results, prev, svars, rvars, pvars, xvars>>

\* one iteration of "for element in arg_list: results.append(func(...))"
SeqStep ==
    /\ pc = "seq"
    /\ pos < Len(pixel_args)
    /\ LET out == LoopCall(dispatcher, fit_kind, pixel_args[pos + 1])
       IN  IF out.raised
           THEN /\ pc' = "raised"
                /\ error' = out.value
                /\ results' = <<>>
                /\ pos' = pos
           ELSE /\ results' = Append(results, out.value)
                /\ pos' = pos + 1
                /\ UNCHANGED <<pc, error>>
    /\ UNCHANGED <<img, seg, dispatcher, fit_kind, fixed_results, pixel_args,
                   n_pools, multi_threading, busy, slots, prev, svars, rvars, pvars, xvars>>

\* the loop is exhausted: return results
SeqReturn ==
    /\ pc = "seq"
    /\ pos = Len(pixel_args)
    /\ pc' = "returned"
    /\ UNCHANGED <<img, seg, dispatcher, fit_kind, fixed_results, pixel_args,
                   n_pools, multi_threading, pos, results, busy, slots,
                   error, prev, svars, rvars, pvars, xvars>>

\* pool.starmap: an idle worker takes the next task of the queue
WorkerTake(w) ==
    /\ pc = "pool"
    /\ w \in DOMAIN busy
    /\ busy[w] = 0
    /\ pos < Len(pixel_args)
    /\ busy' = [busy EXCEPT ![w] = pos + 1]
    /\ pos' = pos + 1
    /\ UNCHANGED <<img, seg, dispatcher, fit_kind, fixed_results, pixel_args,
                   n_pools, multi_threading, pc, results, slots, error, prev, svars, rvars, pvars, xvars>>

\* the worker applies the fit function and hands the outcome back
WorkerFinish(w) ==
    /\ pc = "pool"
    /\ w \in DOMAIN busy
    /\ busy[w] # 0
    /\ slots' = [slots EXCEPT ![busy[w]] =
                     <<StarmapCall(fit_kind, pixel_args[busy[w]])>>]
    /\ busy' = [busy EXCEPT ![w] = 0]
    /\ UNCHANGED <<img, seg, dispatcher, fit_kind, fixed_results, pixel_args,
                   n_pools, multi_threading, pc, pos, results, error, prev, svars, rvars, pvars, xvars>>

\* starmap returns the outcomes in task order once every task is done
PoolReturn ==
    /\ pc = "pool"
    /\ \A n \in DOMAIN slots : slots[n] # <<>> /\ ~slots[n][1].raised
    /\ results' = [n \in DOMAIN slots |-> slots[n][1].value]
    /\ pc' = "returned"
    /\ UNCHANGED <<img, seg, dispatcher, fit_kind, fixed_results, pixel_args,
                   n_pools, multi_threading, pos, busy, slots, error, prev, svars, rvars, pvars, xvars>>

\* a task that raised makes starmap raise; leaving "with Pool" terminates
\* the workers
PoolRaise ==
    /\ pc = "pool"
    /\ \E n \in DOMAIN slots :
          /\ slots[n] # <<>>
          /\ slots[n][1].raised
          /\ error' = slots[n][1].value
    /\ pc' = "raised"
    /\ results' = <<>>
    /\ busy' = [w \in DOMAIN busy |-> 0]
    /\ UNCHANGED <<img, seg, dispatcher, fit_kind, fixed_results, pixel_args,
                   n_pools, multi_threading, pos, slots, prev, svars, rvars, pvars, xvars>>


(***************************************************************************)
(* Callers of the dispatchers.                                             *)
(***************************************************************************)
\* FitData.fit_pixel_wise: pixel_args = fit_params.get_pixel_args(img, seg);
\* the segmented parameters take the fixed maps as further arguments
GetPixelArgs ==
    /\ pc = "start"
    /\ stage = 0
    /\ dispatcher # "fit_legacy"
    /\ pixel_args' = IF fixed_results = <<>>
                     THEN ParametersGetPixelArgs(img, seg)
                     ELSE SegmentedGetPixelArgs(img, seg, fixed_results,
                                                Len(fixed_results) = 2)
    /\ pc' = "idle"
    /\ UNCHANGED <<img, seg, dispatcher, fit_kind, fixed_results, n_pools,
                   multi_threading, pos, results, busy, slots, error, prev,
                   svars, rvars, pvars, xvars>>

\* FitData.fitting_pixelwise(debug), first part:
\* pixel_args = fit_params.get_pixel_args(img, nii_seg, debug)
LegacyGetArgs(debug) ==
    /\ pc = "start"
    /\ stage = 0
    /\ dispatcher = "fit_legacy"
    /\ prev # <<>> => ~debug
    /\ pixel_args' = LegacyGetPixelArgs(img, seg, debug)
    /\ multi_threading' = ~debug
    /\ pc' = "idle"
    /\ UNCHANGED <<img, seg, dispatcher, fit_kind, fixed_results, n_pools,
                   pos, results, busy, slots, error, prev, svars, rvars, pvars, xvars>>

\* the caller keeps the outcome of a sequential dispatch and dispatches the
\* same arguments again
Repeat ==
    /\ pc \in {"returned", "raised"}
    /\ stage = 0
    /\ prev = <<>>
    /\ Entry(dispatcher, n_pools, multi_threading) = "seq"
    /\ prev' = <<[status |-> pc, results |-> results]>>
    /\ pc' = IF dispatcher = "fit_legacy" THEN "start" ELSE "idle"
    /\ pos' = 0
    /\ results' = <<>>
    /\ error' = ""
    /\ UNCHANGED <<img, seg, dispatcher, fit_kind, fixed_results, pixel_args,
                   n_pools, multi_threading, busy, slots, svars, rvars, pvars, xvars>>

(***************************************************************************)
(* Segmented IVIM fitting.                                                 *)
(***************************************************************************)
\* b-values of the parameters and the subset used for the first fit
BValues == <<0, 50>>

ReducedChoices == {<<>>, <<0>>}

\* np.where(np.isin(b_values, reduced_b_values))[0]
ReducedIndexes(reduced) ==
    {n \in 1..Len(BValues) : \E m \in 1..Len(reduced) : reduced[m] = BValues[n]}

\* img[:, :, :, indexes] of one voxel
RECURSIVE Restrict(_, _, _)
Restrict(signal, indexes, n) ==
    IF n > Len(signal) THEN <<>>
    ELSE (IF n \in indexes THEN <<signal[n]>> ELSE <<>>)
         \o Restrict(signal, indexes, n + 1)

\* IVIMSegmentedParams.get_pixel_args_fixed
GetPixelArgsFixed(image, mask, reduced) ==
    IF reduced = <<>>
    THEN ParametersGetPixelArgs(image, mask)
    ELSE LET nz == Nonzero(mask)
         IN  Zip2(nz, [n \in 1..Len(nz) |->
                         Restrict(image[nz[n]], ReducedIndexes(reduced), 1)])

\* the dict a loop "for element in results: d[element[0]] = element[1][k]"
\* leaves: one key per coordinate, the last assignment wins
DictOf(res, k) ==
    [c \in {res[n][1] : n \in 1..Len(res)} |->
        LET last == CHOOSE n \in 1..Len(res) :
                        /\ res[n][1] = c
                        /\ \A m \in 1..Len(res) : res[m][1] = c => m <= n
        IN  res[last][2][k]]

\* get_fixed_fit_results leaving out the voxels whose fit gave zeros
GetFixedFitResultsSkipZero(res, fixed_t1) ==
    LET kept == SelectSeq(res, LAMBDA e : e[2][1] # 0)
    IN  IF fixed_t1 THEN <<DictOf(kept, 1), DictOf(kept, 2)>>
        ELSE <<DictOf(kept, 1)>>

\* IVIMSegmentedParams.get_fixed_fit_results
GetFixedFitResults(res, fixed_t1) ==
    IF fixed_t1 THEN <<DictOf(res, 1), DictOf(res, 2)>> ELSE <<DictOf(res, 1)>>

\* fixed_results[k][i, j, k] is a KeyError for a coordinate without entry
HasEntries(mask, fixed) ==
    \A n \in 1..Len(fixed) : \A c \in Coords : mask[c] # 0 => c \in DOMAIN fixed[n]

\* fit_ivim_segmented, first part: the arguments of the first fit
SegmentedStart ==
    /\ pc = "start"
    /\ stage = 1
    /\ pixel_args' = GetPixelArgsFixed(img, seg, options.reduced_b_values)
    /\ pc' = "idle"
    /\ UNCHANGED <<img, seg, dispatcher, fit_kind, fixed_results, n_pools,
                   multi_threading, pos, results, busy, slots, error, prev,
                   svars, rvars, pvars, xvars>>

\* fit_ivim_segmented, between the fits: the fixed values are extracted
\* from the results of the first fit and the arguments of the second fit
\* are built from them
SegmentedTransition ==
    /\ pc = "returned"
    /\ stage = 1
    /\ LET fixed == GetFixedFitResults(results, options.fixed_t1)
       IN  /\ fixed_results' = fixed
           /\ prev' = <<[status |-> pc, results |-> results]>>
           /\ IF HasEntries(seg, fixed)
              THEN /\ pixel_args' = SegmentedGetPixelArgs(img, seg, fixed,
                                                          options.fixed_t1)
                   /\ stage' = 2
                   /\ fit_kind' = IF options.fixed_t1
                                  THEN "IVIMFixedComponentT1"
                                  ELSE "IVIMFixedComponent"
                   /\ pc' = "idle"
                   /\ error' = ""
              ELSE /\ pc' = "raised"
                   /\ error' = "KeyError"
                   /\ UNCHANGED <<pixel_args, stage, fit_kind>>
    /\ pos' = 0
    /\ results' = <<>>
    /\ UNCHANGED <<img, seg, dispatcher, n_pools, multi_threading, busy,
                   slots, options, evaluated, rvars, pvars, xvars>>

\* SegmentedEvaluate handing over the results without the fixed component
SegmentedEvaluateBare ==
    /\ pc = "returned"
    /\ stage = 2
    /\ evaluated' = <<[results |-> results, fixed_component |-> <<>>]>>
    /\ stage' = 3
    /\ UNCHANGED <<dvars, options, rvars, pvars, xvars>>

\* FitData.fit_ivim_segmented, end: results.eval_results(results,
\* fixed_component=fixed_component)
SegmentedEvaluate ==
    /\ pc = "returned"
    /\ stage = 2
    /\ evaluated' = <<[results |-> results, fixed_component |-> fixed_results]>>
    /\ stage' = 3
    /\ UNCHANGED <<dvars, options, rvars, pvars, xvars>>


(***************************************************************************)
(* Evaluation of spectral fit results: peak detection and fractions.       *)
(* Weights are counted in units of 0.05 and diffusion coefficients in      *)
(* units of 1e-4.  A fraction is kept exactly, as a numerator over the     *)
(* denominator sum(f_values) that np.divide gives all fractions of a       *)
(* voxel.                                                                  *)
(***************************************************************************)
\* fitted weight vectors: NNLS weights are not negative
WeightVectors == [1..NBins -> 0..MaxWeight]

\* get_bins: np.logspace, the bins form a geometric sequence from
\* d_range[0] = 1e-4 upwards
BinRatio == 4

RECURSIVE Power(_, _)
Power(b, e) == IF e = 0 THEN 1 ELSE b * Power(b, e - 1)

Bins == [b \in 1..NBins |-> Power(BinRatio, b - 1)]

\* find_peaks(height=0.1) of the unregularised evaluation: 0.1 = 2 * 0.05
MinHeight == 2

\* find_peaks(height=0) of the regularised evaluation
MinHeightReg == 0

\* scipy _local_maxima_1d: first sample after position i that differs from
\* x[i], the last sample at the latest
RECURSIVE PlateauEnd(_, _, _)
PlateauEnd(x, i, ahead) ==
    IF ahead < Len(x) /\ x[ahead] = x[i]
    THEN PlateauEnd(x, i, ahead + 1)
    ELSE ahead

\* scipy _local_maxima_1d from position i on: a sample (or the middle of a
\* plateau) that is larger than both neighbours; the first and the last
\* sample are never visited
RECURSIVE LocalMaxima(_, _)
LocalMaxima(x, i) ==
    IF i >= Len(x)
    THEN <<>>
    ELSE IF x[i - 1] < x[i]
         THEN LET ahead == PlateauEnd(x, i, i + 1)
              IN  IF x[ahead] < x[i]
                  THEN <<(i + ahead - 1) \div 2>> \o LocalMaxima(x, ahead + 1)
                  ELSE LocalMaxima(x, i + 1)
         ELSE LocalMaxima(x, i + 1)

\* boolean-mask indexing s[keep]
RECURSIVE SelectFrom(_, _, _)
SelectFrom(s, keep, n) ==
    IF n > Len(s) THEN <<>>
    ELSE IF keep[n] THEN <<s[n]>> \o SelectFrom(s, keep, n + 1)
         ELSE SelectFrom(s, keep, n + 1)

SelectSeqBy(s, keep) == SelectFrom(s, keep, 1)

\* signal.find_peaks(x, height=hmin): indices of the local maxima whose
\* height is at least hmin
FindPeaks(x, hmin) ==
    LET all == IF Len(x) < 3 THEN <<>> ELSE LocalMaxima(x, 2)
    IN  SelectSeqBy(all, [n \in 1..Len(all) |-> hmin <= x[all[n]]])

PeakHeights(x, idx) == [n \in 1..Len(idx) |-> x[idx[n]]]

Max(a, b) == IF a >= b THEN a ELSE b

\* scipy _peak_prominences, left side: lowest sample between the peak and
\* the next higher sample to its left, with its position
RECURSIVE LeftBase(_, _, _, _)
LeftBase(x, p, i, base) ==
    IF i < 1 \/ x[i] > x[p]
    THEN base
    ELSE LeftBase(x, p, i - 1,
                  IF x[i] < base.min THEN [min |-> x[i], at |-> i] ELSE base)

RECURSIVE RightBase(_, _, _, _)
RightBase(x, p, i, base) ==
    IF i > Len(x) \/ x[i] > x[p]
    THEN base
    ELSE RightBase(x, p, i + 1,
                   IF x[i] < base.min THEN [min |-> x[i], at |-> i] ELSE base)

Prominence(x, p) ==
    LET l == LeftBase(x, p, p, [min |-> x[p], at |-> p])
        r == RightBase(x, p, p, [min |-> x[p], at |-> p])
    IN  [prominence |-> x[p] - Max(l.min, r.min), left |-> l.at, right |-> r.at]

RECURSIVE Gcd(_, _)
Gcd(a, b) == IF b = 0 THEN a ELSE Gcd(b, a % b)

RECURSIVE LcmUpTo(_)
LcmUpTo(n) == IF n <= 1 THEN 1
              ELSE LET l == LcmUpTo(n - 1) IN (l * n) \div Gcd(l, n)

\* widths are counted in units of 1 / WidthScale of a bin, which makes every
\* interpolated crossing of the half height an integer
WidthScale == 2 * LcmUpTo(MaxWeight)

RECURSIVE WalkLeft(_, _, _, _)
WalkLeft(x, i, i_min, h2) ==
    IF i_min < i /\ h2 < 2 * x[i] THEN WalkLeft(x, i - 1, i_min, h2) ELSE i

RECURSIVE WalkRight(_, _, _, _)
WalkRight(x, i, i_max, h2) ==
    IF i < i_max /\ h2 < 2 * x[i] THEN WalkRight(x, i + 1, i_max, h2) ELSE i

\* signal.peak_widths(x, idx, rel_height=0.5)[0] of one peak: distance of
\* the crossings of the height x[p] - prominence / 2 (h2 is twice that
\* height), linearly interpolated between the samples
PeakWidth(x, p) ==
    LET prom == Prominence(x, p)
        h2 == 2 * x[p] - prom.prominence
        l == WalkLeft(x, p, prom.left, h2)
        r == WalkRight(x, p, prom.right, h2)
        left_ip == WidthScale * l
                   + (IF 2 * x[l] < h2
                      THEN (h2 - 2 * x[l])
                           * (LcmUpTo(MaxWeight) \div (x[l + 1] - x[l]))
                      ELSE 0)
        right_ip == WidthScale * r
                    - (IF 2 * x[r] < h2
                       THEN (h2 - 2 * x[r])
                            * (LcmUpTo(MaxWeight) \div (x[r - 1] - x[r]))
                       ELSE 0)
    IN  right_ip - left_ip

\* NNLSParams.eval_fitting_results for one element of results: peaks of at
\* least MinHeight, d = bins[idx], f = peak_heights / sum(peak_heights)
EvalNNLS(x) ==
    LET idx == FindPeaks(x, MinHeight)
        heights == PeakHeights(x, idx)
    IN  Returned([d |-> [n \in 1..Len(idx) |-> Bins[idx[n]]],
                  f |-> heights,
                  den |-> SumSeq(heights)])

\* regularisation orders a caller can configure; 0 is the default of
\* NNLSregParams.__init__
RegOrders == 0..4

\* orders for which NNLSregParams.get_basis builds a penalty block
\* (reg_order == 1, == 2, == 3)
BasisOrders == {1, 2, 3}

\* diags(...) of NNLSregParams.get_basis: (offset, value) of each diagonal
Diagonals(order) ==
    CASE order = 1 -> {<<0, -1>>, <<1, 1>>}
      [] order = 2 -> {<<-1, 1>>, <<0, -2>>, <<1, 1>>}
      [] order = 3 -> {<<-2, 1>>, <<-1, 2>>, <<0, -6>>, <<1, 2>>, <<2, 1>>}

\* NNLSregParams.get_basis: the penalty block in units of mu, appended below
\* the exponential basis; any other order reaches raise NotImplemented(...),
\* and calling NotImplemented is a TypeError
GetBasisReg(order) ==
    IF order \in BasisOrders
    THEN Returned([i \in 1..NBins |-> [j \in 1..NBins |->
             IF \E dg \in Diagonals(order) : dg[1] = j - i
             THEN (CHOOSE dg \in Diagonals(order) : dg[1] = j - i)[2]
             ELSE 0]])
    ELSE Raised("TypeError")

\* NNLSregParams.eval_fitting_results for one element of results:
\* get_basis() is called for the shape of the spectrum, then peaks of height
\* >= 0, f = height * fwhm * sqrt(2 pi) / (2 sqrt(2 ln 2)), normalised by
\* the sum; the constant and WidthScale are common factors of numerator and
\* denominator
EvalNNLSreg(x, order) ==
    IF GetBasisReg(order).raised
    THEN GetBasisReg(order)
    ELSE LET idx == FindPeaks(x, MinHeightReg)
             areas == [n \in 1..Len(idx) |-> x[idx[n]] * PeakWidth(x, idx[n])]
         IN  Returned([d |-> [n \in 1..Len(idx) |-> Bins[idx[n]]],
                       f |-> areas,
                       den |-> SumSeq(areas)])

ParamsClasses == {"NNLS", "NNLSreg"}

\* params.eval_fitting_results(results, seg) for the voxel
EvalFittingResults ==
    /\ rpc = "fitted"
    /\ LET out == IF params_class = "NNLS"
                  THEN EvalNNLS(weights)
                  ELSE EvalNNLSreg(weights, reg_order)
       IN  IF out.raised
           THEN /\ rpc' = "raised"
                /\ rerror' = out.value
                /\ UNCHANGED <<fit_d, fit_f, fit_den>>
           ELSE /\ rpc' = "evaluated"
                /\ fit_d' = out.value.d
                /\ fit_f' = out.value.f
                /\ fit_den' = out.value.den
                /\ UNCHANGED rerror
    /\ UNCHANGED <<params_class, reg_order, weights, d_values, f_values,
                   d_AUC, f_AUC, regime, dvars, svars, pvars, xvars>>

(***************************************************************************)
(* AUC by regime.                                                          *)
(***************************************************************************)
\* regime_boundaries = [0.003, 0.05, 0.3]
RegimeBoundaries == <<30, 500, 3000>>

NRegimes == Len(RegimeBoundaries)

RECURSIVE SortedSeq(_)
SortedSeq(S) ==
    IF S = {} THEN <<>>
    ELSE LET m == CHOOSE v \in S : \A w \in S : v <= w
         IN  <<m>> \o SortedSeq(S \ {m})

Range(s) == {s[n] : n \in 1..Len(s)}

\* np.setdiff1d(ar1, ar2): the sorted, unique values of ar1 that are not
\* in ar2
SetDiff1d(ar1, ar2) == SortedSeq(Range(ar1) \ Range(ar2))

Dot(a, b) == SumSeq([n \in 1..Len(a) |-> a[n] * b[n]])

\* apply_AUC_to_results, before the loop over the regimes of the voxel
ApplyAUCStart ==
    /\ rpc = "evaluated"
    /\ rpc' = "auc"
    /\ d_values' = fit_d
    /\ f_values' = fit_f
    /\ d_AUC' = [r \in 1..NRegimes |-> <<0, 1>>]
    /\ f_AUC' = [r \in 1..NRegimes |-> 0]
    /\ regime' = 1
    /\ UNCHANGED <<params_class, reg_order, weights, rerror, fit_d, fit_f,
                   fit_den, dvars, svars, pvars, xvars>>

\* apply_AUC_to_results, one pass of the loop over regime_boundaries
ApplyAUCRegime ==
    /\ rpc = "auc"
    /\ regime <= NRegimes
    /\ LET peaks_in_regime == [n \in 1..Len(d_values) |->
                                  d_values[n] < RegimeBoundaries[regime]]
           d_regime == SelectSeqBy(d_values, peaks_in_regime)
           f_regime == SelectSeqBy(f_values, peaks_in_regime)
       IN  IF \A n \in 1..Len(d_values) : ~peaks_in_regime[n]
           THEN /\ regime' = regime + 1
                /\ UNCHANGED <<rpc, rerror, d_values, f_values, d_AUC, f_AUC>>
           ELSE IF Len(f_values) # Len(d_values)
           THEN \* f_values[peaks_in_regime]: the boolean index does not
                \* match the length of f_values
                /\ rpc' = "raised"
                /\ rerror' = "IndexError"
                /\ UNCHANGED <<regime, d_values, f_values, d_AUC, f_AUC>>
           ELSE /\ f_AUC' = [f_AUC EXCEPT ![regime] = SumSeq(f_regime)]
                /\ d_AUC' = [d_AUC EXCEPT ![regime] =
                                <<Dot(d_regime, f_regime), SumSeq(f_regime)>>]
                /\ d_values' = SetDiff1d(d_values, d_regime)
                /\ f_values' = SetDiff1d(f_values, f_regime)
                /\ regime' = regime + 1
                /\ UNCHANGED <<rpc, rerror>>
    /\ UNCHANGED <<params_class, reg_order, weights, fit_d, fit_f, fit_den,
                   dvars, svars, pvars, xvars>>

\* apply_AUC_to_results: return d_AUC, f_AUC
ApplyAUCReturn ==
    /\ rpc = "auc"
    /\ regime > NRegimes
    /\ rpc' = "auc_done"
    /\ UNCHANGED <<params_class, reg_order, weights, rerror, fit_d, fit_f,
                   fit_den, d_values, f_values, d_AUC, f_AUC, regime,
                   dvars, svars, pvars, xvars>>

(***************************************************************************)
(* Parameter objects.  A value of an attribute or of a configuration entry *)
(* carries its Python type; numbers are integers in the unit of their      *)
(* attribute (coefficients 1e-4, mu 1e-2, tol 1e-4).                       *)
(***************************************************************************)
None == [kind |-> "none", data |-> <<>>, str |-> ""]

\* the attribute does not exist on the object
Absent == [kind |-> "absent", data |-> <<>>, str |-> ""]

Num(n) == [kind |-> "int", data |-> <<n>>, str |-> ""]

Str(s) == [kind |-> "str", data |-> <<>>, str |-> s]

List(s) == [kind |-> "list", data |-> s, str |-> ""]

\* np.ndarray; squeezed of axes of length one
Array(s) == [kind |-> "array", data |-> s, str |-> ""]

\* a callable (function, lambda, partial)
Callable(name) == [kind |-> "callable", data |-> <<>>, str |-> name]

\* Parameters.__init__: boundaries["n_bins"] = 250
DefaultNBins == 250

\* Parameters.__init__: boundaries["d_range"] = [1e-4, 2e-1]
DefaultDRange == <<1, 2000>>

\* Parameters.__init__: n_pools = 4
DefaultNPools == 4

\* b-values of the model (the default of Parameters.__init__ has 16)
DefaultBValues == <<0, 50>>

\* the b_values setter: a list becomes an array, an array is stored as a
\* column, anything else leaves the attribute as it was
SetBValues(obj, value) ==
    IF value.kind \in {"list", "array"}
    THEN [obj EXCEPT !.b_values = Array(value.data)]
    ELSE obj

\* Parameters.__init__(b_values, max_iter, n_pools)
NewParameters(max_iter) ==
    [class |-> "Parameters",
     b_values |-> Array(DefaultBValues),
     max_iter |-> max_iter,
     boundaries |-> [lb |-> Array(<<>>), ub |-> Array(<<>>), x0 |-> Array(<<>>),
                     n_bins |-> Num(DefaultNBins),
                     d_range |-> Array(DefaultDRange)],
     n_pools |-> Num(DefaultNPools),
     fit_area |-> Str("Pixel"),
     fit_model |-> Callable("lambda"),
     fit_function |-> Callable("lambda"),
     reg_order |-> Absent,
     mu |-> Absent,
     tol |-> Absent,
     TM |-> Absent,
     n_components |-> Absent]

\* NNLSParams.__init__(max_iter=250, n_bins=250, d_range)
NewNNLSParams(n_bins, d_range) ==
    [NewParameters(Num(250)) EXCEPT
        !.class = "NNLSParams",
        !.boundaries.n_bins = n_bins,
        !.boundaries.d_range = d_range,
        !.fit_function = Callable("partial"),
        !.fit_model = Callable("Model.NNLS.model")]

\* NNLSregParams.__init__(reg_order=0, mu=0.02): max_iter=200, the
\* order is stored as given
NewNNLSregParams(order, mu) ==
    [NewNNLSParams(Num(DefaultNBins), Array(DefaultDRange)) EXCEPT
        !.class = "NNLSregParams",
        !.max_iter = Num(200),
        !.reg_order = order,
        !.mu = mu]

\* NNLSregCVParams.__init__(tol=0.0001, reg_order="CV"): the line
\* "self.reg_order: reg_order" is an annotation and sets nothing
NewNNLSregCVParams(tol) ==
    [NewNNLSParams(Num(DefaultNBins), Array(DefaultDRange)) EXCEPT
        !.class = "NNLSregCVParams",
        !.tol = tol,
        !.mu = None]

\* largest component count a caller hands to IVIMParams
MaxComponents == 4

\* list[:n] for n >= 0
Slice(s, n) == SubSeq(s, 1, Min(n, Len(s)))

\* IVIMParams.set_boundaries: the literal defaults, sliced by the component
\* count (values in units of 1e-4)
SetBoundaries(obj) ==
    LET comp == obj.n_components.data[1]
        x0_d == <<5, 100, 1000>>
        x0_f == <<3000, 5000>>
        x0_S0 == <<2100000>>
        lb_d == <<1, 30, 200>>
        lb_f == <<100, 100>>
        lb_S0 == <<100000>>
        ub_d == <<30, 200, 4000>>
        ub_f == <<7000, 7000>>
        ub_S0 == <<100000000>>
    IN  [obj EXCEPT
            !.boundaries.x0 = Array(Slice(x0_d, comp) \o Slice(x0_f, comp - 1) \o x0_S0),
            !.boundaries.lb = Array(Slice(lb_d, comp) \o Slice(lb_f, comp - 1) \o lb_S0),
            !.boundaries.ub = Array(Slice(ub_d, comp) \o Slice(ub_f, comp - 1) \o ub_S0)]

\* the n_components setter (called with an integer): store the count and
\* fall back to set_boundaries if no start vector is set or its length is
\* not the count
SetNComponents(obj, value) ==
    LET stored == [obj EXCEPT !.n_components = value]
    IN  IF obj.boundaries.x0.kind = "none"
           \/ Len(obj.boundaries.x0.data) # value.data[1]
        THEN SetBoundaries(stored)
        ELSE stored

\* "not x0" of IVIMParams.__init__: None and empty sequences are falsy, the
\* truth value of an array of more than one element is a ValueError
NotX0(x0) ==
    CASE x0.kind = "none" -> Returned(TRUE)
      [] x0.kind = "list" -> Returned(x0.data = <<>>)
      [] x0.kind = "array" /\ Len(x0.data) = 0 -> Returned(TRUE)
      [] x0.kind = "array" /\ Len(x0.data) = 1 -> Returned(x0.data[1] = 0)
      [] OTHER -> Raised("ValueError")

\* IVIMParams.__init__(x0, lb, ub, TM, max_iter=600, n_components=3)
NewIVIMParams(x0, lb, ub, n) ==
    LET base == [NewParameters(Num(600)) EXCEPT
                    !.class = "IVIMParams",
                    !.boundaries.x0 = x0,
                    !.boundaries.lb = lb,
                    !.boundaries.ub = ub,
                    !.TM = None]
        counted == [SetNComponents(base, n) EXCEPT
                       !.fit_function = Callable("partial"),
                       !.fit_model = Callable("Model.IVIM.wrapper")]
    IN  IF NotX0(x0).raised
        THEN NotX0(x0)
        ELSE IF NotX0(x0).value
             THEN Returned(SetBoundaries(counted))
             ELSE Returned(counted)

\* the fit_function property of IVIMParams: what partial binds
IVIMFitFunction(obj) ==
    [args |-> obj.boundaries.x0,
     lb |-> obj.boundaries.lb,
     ub |-> obj.boundaries.ub,
     n_components |-> obj.n_components,
     TM |-> obj.TM,
     max_iter |-> obj.max_iter]

(***************************************************************************)
(* Configuration files: save_to_json and load_from_json.  A file is the    *)
(* sequence of its <<key path, value>> entries; a key path is the key      *)
(* split at the dots.                                                      *)
(***************************************************************************)
\* dir(self) without the private names, in its sorted order
PublicAttributes ==
    <<"TM", "b_values", "boundaries", "fit_area", "fit_function", "fit_model",
      "max_iter", "mu", "n_components", "n_pools", "reg_order", "tol">>

BoundaryFields == {"lb", "ub", "x0", "n_bins", "d_range"}

HasAttr(obj, name) ==
    /\ name \in DOMAIN obj
    /\ name # "class"
    /\ "kind" \in DOMAIN obj[name] => obj[name].kind # "absent"

\* the Custom Encoder of save_to_json: value.squeeze().tolist() of an array,
\* which is a scalar for an array of one element
Encode(value) ==
    IF value.kind = "array"
    THEN IF Len(value.data) = 1 THEN Num(value.data[1]) ELSE List(value.data)
    ELSE value

\* attributes save_to_json writes: not callable, not private, not a partial,
\* and not "boundaries"
SavedAttributes(obj) ==
    SelectSeqBy(PublicAttributes,
                [n \in 1..Len(PublicAttributes) |->
                    /\ HasAttr(obj, PublicAttributes[n])
                    /\ PublicAttributes[n] # "boundaries"
                    /\ obj[PublicAttributes[n]].kind # "callable"])

\* save_to_json: getattr of every attribute evaluates the fit_function
\* property, which builds the basis (get_basis) for the spectral classes
SaveToJson(obj) ==
    IF obj.class = "NNLSregParams" /\ GetBasisReg(obj.reg_order.data[1]).raised
    THEN GetBasisReg(obj.reg_order.data[1])
    ELSE LET attrs == SavedAttributes(obj)
         IN  Returned(<<<<(<<"Class">>), Str(obj.class)>>>>
                      \o [n \in 1..Len(attrs) |-> <<(<<attrs[n]>>), Encode(obj[attrs[n]])>>])

ParameterClasses ==
    {"Parameters", "NNLSParams", "NNLSregParams", "NNLSregCVParams", "IVIMParams"}

\* names of the module's globals that are not parameter classes: another
\* class and an imported module
OtherGlobals == {"Results", "np"}

\* mu = 0.02 and tol = 0.0001, the defaults of the regularised classes
DefaultMu == 2

DefaultTol == 1

\* Results(): an object without any parameter attribute
NewResults ==
    [class |-> "Results"] @@ [name \in DOMAIN NewParameters(None) |-> Absent]

\* globals()[data_dict["Class"]](): the class called without arguments
Instantiate(tag) ==
    CASE tag = "Parameters" -> Returned(NewParameters(None))
      [] tag = "NNLSParams" -> Returned(NewNNLSParams(Num(DefaultNBins), Array(DefaultDRange)))
      [] tag = "NNLSregParams" -> Returned(NewNNLSregParams(Num(0), Num(DefaultMu)))
      [] tag = "NNLSregCVParams" -> Returned(NewNNLSregCVParams(Num(DefaultTol)))
      [] tag = "IVIMParams" -> NewIVIMParams(None, None, None, Num(3))
      [] tag = "Results" -> Returned(NewResults)
      [] OTHER -> Raised("TypeError")

\* setattr(current_obj, name, item) on a parameter object, through the
\* property setters
SetAttr(obj, name, item) ==
    CASE name = "b_values" -> SetBValues(obj, item)
      [] name = "n_components" -> SetNComponents(obj, item)
      [] OTHER -> [obj EXCEPT ![name] = item]

\* one pass of the loop of load_from_json over data_dict.items(): walk the
\* key path with getattr, then set the last entry if hasattr finds it; a
\* dict (boundaries) has none of its keys as attribute
LoadEntry(obj, path, value) ==
    LET item == IF value.kind = "list" THEN Array(value.data) ELSE value
    IN  IF Len(path) = 1
        THEN IF HasAttr(obj, path[1]) THEN Returned(SetAttr(obj, path[1], item))
             ELSE Returned(obj)
        ELSE IF ~HasAttr(obj, path[1]) THEN Raised("AttributeError")
             ELSE Returned(obj)

RECURSIVE LoadEntries(_, _, _)
LoadEntries(obj, file, n) ==
    IF n > Len(file) THEN Returned(obj)
    ELSE LET step == LoadEntry(obj, file[n][1], file[n][2])
         IN  IF step.raised THEN step ELSE LoadEntries(step.value, file, n + 1)

ClassEntries(file) == {n \in 1..Len(file) : file[n][1] = <<"Class">>}

\* Parameters.load_from_json: the value "None" stands for the bare return
\* after print("Error: Wrong Class Header!")
LoadFromJson(file) ==
    IF ClassEntries(file) = {}
    THEN Raised("KeyError")
    ELSE LET tag == file[CHOOSE n \in ClassEntries(file) : TRUE][2].str
         IN  IF tag \notin ParameterClasses \cup OtherGlobals
             THEN Returned(None)
             ELSE IF Instantiate(tag).raised THEN Instantiate(tag)
                  ELSE LoadEntries(Instantiate(tag).value, file, 1)

(***************************************************************************)
(* Regularised basis and signal of the first version (fit.py) and of       *)
(* fit/parameters.py on a parameter object.                                *)
(***************************************************************************)
\* NNLSregParams.__init__ of the first version: reg_order=2, mu=0.01,
\* max_iter=100000
NewLegacyNNLSregParams(order) ==
    [NewNNLSParams(Num(DefaultNBins), Array(DefaultDRange)) EXCEPT
        !.class = "LegacyNNLSregParams",
        !.max_iter = Num(100000),
        !.reg_order = order,
        !.mu = Num(1)]

\* diags(...) of the first version: order 0 is the identity
LegacyDiagonals(order) ==
    IF order = 0 THEN {<<0, 1>>} ELSE Diagonals(order)

\* the regularised basis of a parameter object: the exponential basis of
\* len(b_values) rows on top of the penalty block, an n_bins x n_bins band
\* matrix given by its diagonals in units of mu.  In the first version an
\* order without branch leaves reg unbound.
GetBasis(obj) ==
    LET order == obj.reg_order.data[1]
        n_bins == obj.boundaries.n_bins.data[1]
        rows == Len(obj.b_values.data) + n_bins
    IN  IF obj.class = "LegacyNNLSregParams"
        THEN IF order \in 0..3
             THEN Returned([rows |-> rows, n |-> n_bins,
                            diagonals |-> LegacyDiagonals(order)])
             ELSE Raised("UnboundLocalError")
        ELSE IF GetBasisReg(order).raised
             THEN GetBasisReg(order)
             ELSE Returned([rows |-> rows, n |-> n_bins,
                            diagonals |-> Diagonals(order)])

\* entry (i, j) of a band matrix given by its diagonals
BlockEntry(diagonals, i, j) ==
    IF \E dg \in diagonals : dg[1] = j - i
    THEN (CHOOSE dg \in diagonals : dg[1] = j - i)[2]
    ELSE 0

\* zeros appended to every signal: n_bins in NNLSregParams.get_pixel_args,
\* the literal 250 in the first version
PaddingLength(obj) ==
    IF obj.class = "LegacyNNLSregParams" THEN 250
    ELSE obj.boundaries.n_bins.data[1]

\* NNLSregParams.get_pixel_args: np.concatenate((img, reg), axis=3), then
\* the get_pixel_args of the parent class
RegGetPixelArgs(obj, image, mask) ==
    LET img_reg == [c \in DOMAIN image |-> image[c] \o Zeros(PaddingLength(obj))]
    IN  IF obj.class = "LegacyNNLSregParams"
        THEN LegacyGetPixelArgs(img_reg, mask, FALSE)
        ELSE ParametersGetPixelArgs(img_reg, mask)

(***************************************************************************)
(* Operations on the parameter object.                                     *)
(***************************************************************************)
\* n_bins a caller configures
NBinsChoices == {NBins, DefaultNBins}

\* start, lower and upper vectors a caller supplies for n components:
\* 2n entries each, none of them a default
Supplied(n) ==
    [x0 |-> [i \in 1..(2 * n) |-> 10 + i],
     lb |-> [i \in 1..(2 * n) |-> 2],
     ub |-> [i \in 1..(2 * n) |-> 9000]]

\* the ways IVIMParams is constructed with n components: without vectors,
\* with arrays, with lists
IVIMArguments(n) ==
    {[x0 |-> None, lb |-> None, ub |-> None, n |-> Num(n)],
     [x0 |-> Array(Supplied(n).x0), lb |-> Array(Supplied(n).lb),
      ub |-> Array(Supplied(n).ub), n |-> Num(n)],
     [x0 |-> List(Supplied(n).x0), lb |-> List(Supplied(n).lb),
      ub |-> List(Supplied(n).ub), n |-> Num(n)]}

SpectralClasses == {"NNLSParams", "NNLSregParams", "NNLSregCVParams", "LegacyNNLSregParams"}

RegClasses == {"NNLSregParams", "LegacyNNLSregParams"}

\* the caller receives the object, or the exception of the constructor
Constructed(op, arg, out) ==
    /\ ppc = "new"
    /\ json_file = <<>>
    /\ call' = [op |-> op, arg |-> arg, out |-> out]
    /\ IF out.raised
       THEN /\ ppc' = "raised"
            /\ perror' = out.value
            /\ UNCHANGED params
       ELSE /\ ppc' = "ready"
            /\ params' = out.value
            /\ UNCHANGED perror
    /\ UNCHANGED <<json_file, loaded, dvars, svars, rvars, xvars>>

\* Parameters()
ConstructParameters ==
    /\ ppc = "new"
    /\ Constructed("Parameters", None, Returned(NewParameters(None)))

\* NNLSParams(n_bins=...)
ConstructNNLS(n_bins) ==
    /\ ppc = "new"
    /\ Constructed("NNLSParams", Num(n_bins),
                Returned(NewNNLSParams(Num(n_bins), Array(DefaultDRange))))

\* NNLSregParams(reg_order=...)
ConstructNNLSreg(order) ==
    /\ ppc = "new"
    /\ Constructed("NNLSregParams", Num(order),
                Returned(NewNNLSregParams(Num(order), Num(DefaultMu))))

\* NNLSregParams(reg_order=...) of the first version
ConstructLegacyNNLSreg(order) ==
    /\ ppc = "new"
    /\ Constructed("LegacyNNLSregParams", Num(order),
                Returned(NewLegacyNNLSregParams(Num(order))))

\* NNLSregCVParams()
ConstructNNLSregCV ==
    /\ ppc = "new"
    /\ Constructed("NNLSregCVParams", None, Returned(NewNNLSregCVParams(Num(DefaultTol))))

\* IVIMParams(x0, lb, ub, n_components=n)
ConstructIVIM(a) ==
    /\ ppc = "new"
    /\ Constructed("IVIMParams", a, NewIVIMParams(a.x0, a.lb, a.ub, a.n))

\* fit_params.reg_order = order: a plain attribute, stored as given
AssignRegOrder(order) ==
    /\ ppc = "ready"
    /\ params.class \in RegClasses
    /\ params.reg_order # Num(order)
    /\ params' = [params EXCEPT !.reg_order = Num(order)]
    /\ call' = [op |-> "reg_order", arg |-> Num(order), out |-> Returned(None)]
    /\ UNCHANGED <<json_file, loaded, ppc, perror, dvars, svars, rvars, xvars>>

\* fit_params.boundaries["n_bins"] = n_bins
AssignNBins(n_bins) ==
    /\ ppc = "ready"
    /\ params.class \in SpectralClasses
    /\ params.boundaries.n_bins # Num(n_bins)
    /\ params' = [params EXCEPT !.boundaries.n_bins = Num(n_bins)]
    /\ call' = [op |-> "n_bins", arg |-> Num(n_bins), out |-> Returned(None)]
    /\ UNCHANGED <<json_file, loaded, ppc, perror, dvars, svars, rvars, xvars>>

\* fit_params.n_components = n, through the setter
AssignNComponents(n) ==
    /\ ppc = "ready"
    /\ params.class = "IVIMParams"
    /\ params' = SetNComponents(params, Num(n))
    /\ call' = [op |-> "n_components", arg |-> Num(n), out |-> Returned(None)]
    /\ UNCHANGED <<json_file, loaded, ppc, perror, dvars, svars, rvars, xvars>>

\* fit_params.save_to_json(file)
SaveToJsonCall ==
    /\ ppc = "ready"
    /\ params.class \in ParameterClasses
    /\ json_file = <<>>
    /\ LET out == SaveToJson(params)
       IN  /\ call' = [op |-> "save_to_json", arg |-> None,
                       out |-> IF out.raised THEN out ELSE Returned(None)]
           /\ IF out.raised
              THEN /\ ppc' = "raised"
                   /\ perror' = out.value
                   /\ UNCHANGED json_file
              ELSE /\ json_file' = out.value
                   /\ UNCHANGED <<ppc, perror>>
    /\ UNCHANGED <<params, loaded, dvars, svars, rvars, xvars>>

\* Class tags of configurations written by hand
ClassTags == ParameterClasses \cup OtherGlobals \cup {"Unknown"}

\* entries of configurations written by hand, next to the Class tag
ConfigEntries ==
    {<<(<<"max_iter">>), Num(100)>>,
     <<(<<"b_values">>), List(<<0, 100>>)>>,
     <<(<<"boundaries", "n_bins">>), Num(NBins)>>,
     <<(<<"boundaries", "d_range">>), List(<<1, 1000>>)>>,
     <<(<<"boundaries", "lb">>), List(<<1, 100>>)>>}
    \cup {<<(<<"reg_order">>), Num(order)>> : order \in RegOrders}

\* configurations written by hand: a Class tag and one entry, or an entry
\* without Class tag
ConfigFiles ==
    {<<<<(<<"Class">>), Str(tag)>>, e>> : tag \in ClassTags, e \in ConfigEntries}
    \cup {<<e>> : e \in ConfigEntries}

\* a configuration file written by hand is put in place
WriteConfig(file) ==
    /\ ppc = "new"
    /\ json_file = <<>>
    /\ json_file' = file
    /\ UNCHANGED <<params, loaded, ppc, perror, call, dvars, svars, rvars, xvars>>

\* Parameters.load_from_json(file)
LoadFromJsonCall ==
    /\ json_file # <<>>
    /\ loaded = <<>>
    /\ ppc \in {"new", "ready"}
    /\ loaded' = <<LoadFromJson(json_file)>>
    /\ UNCHANGED <<params, json_file, ppc, perror, call, dvars, svars, rvars, xvars>>

\* the members of the Union the annotation of FitData._get_params_class names
ModelClasses == {"IVIMParams", "IVIMSegmentedParams", "NNLSParams", "NNLSCVParams"}

\* FitData._get_model with _get_params_class (pyneapple/fitting/fitdata.py):
\* the class a configuration names, ValueError without Class tag or for
\* a tag no class carries
GetModel(file) ==
    IF ClassEntries(file) = {}
    THEN Raised("ValueError")
    ELSE LET tag == file[CHOOSE n \in ClassEntries(file) : TRUE][2].str
         IN  IF tag \in ModelClasses THEN Returned(Str(tag)) ELSE Raised("ValueError")

\* FitData(img, seg, params_json) up to self._get_model()
GetModelCall ==
    /\ ppc = "new"
    /\ json_file # <<>>
    /\ loaded = <<>>
    /\ "op" \notin DOMAIN call
    /\ call' = [op |-> "_get_model", arg |-> None, out |-> GetModel(json_file)]
    /\ UNCHANGED <<params, json_file, loaded, ppc, perror, dvars, svars, rvars, xvars>>

IsParameters(value) == "class" \in DOMAIN value /\ value.class \in ParameterClasses

\* fit_data.fit_params = Parameters.load_from_json(file)
Adopt ==
    /\ ppc = "new"
    /\ loaded # <<>>
    /\ ~loaded[1].raised
    /\ IsParameters(loaded[1].value)
    /\ params' = loaded[1].value
    /\ ppc' = "ready"
    /\ json_file' = <<>>
    /\ loaded' = <<>>
    /\ UNCHANGED <<perror, call, dvars, svars, rvars, xvars>>

\* a call on the object whose exception, if any, reaches the caller
Called(op, out) ==
    /\ ppc = "ready"
    /\ call' = [op |-> op, arg |-> None, out |-> out]
    /\ IF out.raised
       THEN ppc' = "raised" /\ perror' = out.value
       ELSE UNCHANGED <<ppc, perror>>
    /\ UNCHANGED <<params, json_file, loaded, dvars, svars, rvars, xvars>>

\* fit_params.get_basis() of a regularised class
GetBasisCall ==
    /\ ppc = "ready"
    /\ params.class \in RegClasses
    /\ Called("get_basis", GetBasis(params))

\* fit_params.get_pixel_args(img, seg) of a regularised class
RegGetPixelArgsCall ==
    /\ ppc = "ready"
    /\ params.class \in RegClasses
    /\ Called("get_pixel_args", Returned(RegGetPixelArgs(params, img, seg)))

\* what reading the fit_function property binds: the basis of the spectral
\* classes, the boundaries of IVIMParams
FitFunctionProperty(obj) ==
    CASE obj.class \in RegClasses -> GetBasis(obj)
      [] obj.class = "IVIMParams" -> Returned(IVIMFitFunction(obj))
      [] OTHER -> Returned(None)

\* FitData.fit_pixel_wise up to the dispatch: get_pixel_args, then the
\* fit_function property is read for the call of fit
FitPixelWiseBind ==
    /\ ppc = "ready"
    /\ params.class # "Parameters"
    /\ Called("fit_pixel_wise", FitFunctionProperty(params))

(***************************************************************************)
(* Evaluation of IVIM fit results: IVIMParams.eval_fitting_results and     *)
(* set_spectrum_from_variables (fit/parameters.py), and the evaluation of  *)
(* the mono-exponential results of the first version (fit.py).  Every      *)
(* entry of a parameter vector is in units of 1e-4.                        *)
(***************************************************************************)
\* the number 1 of "1 - np.sum(...)" in units of 1e-4
One == 10000

Abs(x) == IF x < 0 THEN -x ELSE x

\* element[1][a:b] with 0 <= a and b counted from the end when negative
PySlice(v, a, b) ==
    LET stop == IF b < 0 THEN Len(v) + b ELSE Min(b, Len(v))
    IN  IF a >= stop THEN <<>> ELSE SubSeq(v, a + 1, stop)

\* the fractions with the last one left at the zero of np.zeros
FractionsOfWithoutRest(v, n) ==
    LET rhs == PySlice(v, n, -1)
        head == [k \in 1..(n - 1) |-> IF Len(rhs) = 1 THEN rhs[1] ELSE rhs[k]]
    IN  IF Len(rhs) # n - 1 /\ Len(rhs) # 1
        THEN Raised("ValueError")
        ELSE Returned(head \o <<0>>)

\* f_new = np.zeros(n); f_new[: n - 1] = element[1][n:-1];
\* f_new[-1] = 1 - np.sum(element[1][n:-1]).  The slice assignment takes a
\* right side of the length of the target or of length 1 (broadcast), any
\* other length is a ValueError.
FractionsOf(v, n) ==
    LET rhs == PySlice(v, n, -1)
        head == [k \in 1..(n - 1) |-> IF Len(rhs) = 1 THEN rhs[1] ELSE rhs[k]]
    IN  IF Len(rhs) # n - 1 /\ Len(rhs) # 1
        THEN Raised("ValueError")
        ELSE Returned(head \o <<One - SumSeq(rhs)>>)

\* one pass of the loop of IVIMParams.eval_fitting_results: what is stored
\* for the voxel of the element; T1 is element[1][2] when TM is set
EvalElement(v, n, tm) ==
    IF FractionsOf(v, n).raised THEN FractionsOf(v, n)
    ELSE IF tm # <<>> /\ tm[1] # 0 /\ Len(v) < 3 THEN Raised("IndexError")
    ELSE Returned([raw |-> v,
                   S0 |-> v[Len(v)],
                   d |-> PySlice(v, 0, n),
                   f |-> FractionsOf(v, n).value,
                   T1 |-> IF tm # <<>> /\ tm[1] # 0 THEN <<v[3]>> ELSE <<>>])

\* one pass of the loop of eval_pixelwise_fitting_results of MonoParams and
\* MonoT1Params (fit.py): the vector is (S0, d) or (S0, d, T1)
LegacyEvalElement(v, tm) ==
    Returned([raw |-> v,
              S0 |-> v[1],
              d |-> <<v[2]>>,
              f |-> <<One>>,
              T1 |-> IF tm # <<>> THEN <<v[3]>> ELSE <<>>])

\* np.argmin(abs(d_values - D)): the first index of the smallest distance
NearestBin(D) ==
    CHOOSE b \in 1..NBins :
        /\ \A c \in 1..NBins : Abs(Bins[b] - D) <= Abs(Bins[c] - D)
        /\ \A c \in 1..(b - 1) : Abs(Bins[c] - D) > Abs(Bins[b] - D)

\* temp_spec after k components: F * unit_impulse(n_bins, index) added for
\* each pair of zip(d, f)
RECURSIVE TempSpec(_, _, _)
TempSpec(d, f, k) ==
    IF k = 0 THEN Zeros(NBins)
    ELSE LET before == TempSpec(d, f, k - 1)
         IN  [b \in 1..NBins |->
                 before[b] + IF b = NearestBin(d[k]) THEN f[k] ELSE 0]

\* the coordinates of a result list, in its order
Keys(list) == [k \in 1..Len(list) |-> list[k][1]]

\* the last element of the list stored under the key c: a later assignment
\* to a dict replaces the earlier one
LastOf(list, c) ==
    list[CHOOSE k \in 1..Len(list) :
            list[k][1] = c /\ \A m \in (k + 1)..Len(list) : list[m][1] # c][2]

\* IVIMParams.eval_fitting_results with set_spectrum_from_variables: the
\* dicts raw, S0, d, f and T1 keyed by coordinate, and the spectrum array of
\* the shape of the mask with n_bins entries per voxel.  The curve of
\* fit_model is left out (Model.IVIM is not part of the sources).
IVIMEvalFittingResults(list, n, tm) ==
    LET keys == Range(Keys(list))
        stored(c) == EvalElement(LastOf(list, c), n, tm)
        failing == {k \in 1..Len(list) : EvalElement(list[k][2], n, tm).raised}
        with_t1 == IF tm # <<>> /\ tm[1] # 0 THEN keys ELSE {}
    IN  IF failing # {}
        THEN EvalElement(list[CHOOSE k \in failing : \A m \in failing : k <= m][2], n, tm)
        ELSE Returned(
               [raw |-> [c \in keys |-> stored(c).value.raw],
                S0 |-> [c \in keys |-> stored(c).value.S0],
                d |-> [c \in keys |-> stored(c).value.d],
                f |-> [c \in keys |-> stored(c).value.f],
                T1 |-> [c \in with_t1 |-> stored(c).value.T1],
                spectrum |-> [c \in Coords |->
                    IF c \in keys
                    THEN TempSpec(stored(c).value.d, stored(c).value.f,
                                  Min(Len(stored(c).value.d), Len(stored(c).value.f)))
                    ELSE Zeros(NBins)]])

\* eval_pixelwise_fitting_results of MonoParams / MonoT1Params with
\* set_spectrum_for_pixelwise (fit.py): S0, d, f and T1 are lists of
\* (coordinate, values) pairs, given here by coordinate; d_new takes its
\* length from fit_pixel_results.d[1], the pair of the second result
LegacyEvalPixelwise(list, tm) ==
    LET keys == Range(Keys(list))
        stored(c) == LegacyEvalElement(LastOf(list, c), tm)
        with_t1 == IF tm # <<>> THEN keys ELSE {}
    IN  IF Len(list) < 2
        THEN Raised("IndexError")
        ELSE Returned(
               [raw |-> [c \in keys |-> stored(c).value.raw],
                S0 |-> [c \in keys |-> stored(c).value.S0],
                d |-> [c \in keys |-> stored(c).value.d],
                f |-> [c \in keys |-> stored(c).value.f],
                T1 |-> [c \in with_t1 |-> stored(c).value.T1],
                spectrum |-> [c \in Coords |->
                    IF c \in keys
                    THEN TempSpec(stored(c).value.d, stored(c).value.f, 1)
                    ELSE Zeros(NBins)]])

\* fit_results = fit_params.eval_fitting_results(results, seg)
IVIMEvalCall ==
    /\ ipc = "start"
    /\ version = "parameters"
    /\ fit_results' = IVIMEvalFittingResults(fit_list, n_components, TM)
    /\ ipc' = IF fit_results'.raised THEN "raised" ELSE "evaluated"
    /\ UNCHANGED <<n_components, TM, version, fit_list, dvars, svars, rvars, pvars, fvars, avars, ovars>>

\* fit_pixel_results = fit_params.eval_pixelwise_fitting_results(results, seg)
LegacyEvalCall ==
    /\ ipc = "start"
    /\ version = "fit"
    /\ fit_results' = LegacyEvalPixelwise(fit_list, TM)
    /\ ipc' = IF fit_results'.raised THEN "raised" ELSE "evaluated"
    /\ UNCHANGED <<n_components, TM, version, fit_list, dvars, svars, rvars, pvars, fvars, avars, ovars>>

(***************************************************************************)
(* One fit call of a FitData object.                                       *)
(***************************************************************************)
\* FitData of fit/fit.py ("fit") and of fitting/fitdata.py ("fitdata")
FitDataClasses == {"fit", "fitdata"}

\* np.nonzero(np.squeeze(seg, axis=3)) of a mask of any extent along x, as
\* coordinates in row-major order
RECURSIVE NonzeroWithin(_, _)
NonzeroWithin(mask, r) ==
    IF r >= Cardinality(DOMAIN mask) THEN <<>>
    ELSE (IF mask[<<r, 0, 0>>] # 0 THEN << <<r, 0, 0>> >> ELSE <<>>)
         \o NonzeroWithin(mask, r + 1)

\* Parameters.get_pixel_args as the zip object it returns: np.nonzero of the
\* mask is taken when the generators are created, img[i, j, k, :] is read
\* when an element is asked for
LazyPixelArgs(mask) ==
    LET nz == NonzeroWithin(mask, 0)
    IN  [n \in 1..Len(nz) |-> <<"voxel", nz[n]>>]

\* next() on the zip object: the coordinate and img[i, j, k, :]; subscribing
\* None is a TypeError, a coordinate outside the grid an IndexError
PixelElement(image, c) ==
    IF image = <<>> THEN Raised("TypeError")
    ELSE IF c \notin DOMAIN image[1] THEN Raised("IndexError")
    ELSE Returned(<<c, image[1][c]>>)

\* np.mean(signals, axis=0) of a non-empty tuple of signals
MeanOf(signals) ==
    [n \in 1..Len(signals[1]) |->
        SumSeq([k \in 1..Len(signals) |-> signals[k][n]]) \div Len(signals)]

\* NiiSeg.n_segmentations: the number of labels of the mask
NSegmentations(mask) == Cardinality({mask[c] : c \in DOMAIN mask} \ {0})

\* the labels of the mask in ascending order (NiiSeg.seg_values)
SegValues(mask) ==
    LET labels == {mask[c] : c \in DOMAIN mask} \ {0}
    IN  [k \in 1..Cardinality(labels) |->
            CHOOSE l \in labels : Cardinality({m \in labels : m < l}) = k - 1]

\* fit.fit_segmentation_wise of the fitting package: the argument of one
\* label is the label and the mean signal of the voxels carrying it
LabelElement(image, mask, label) ==
    LET at == SelectSeq(NonzeroWithin(mask, 0), LAMBDA c : mask[c] = label)
    IN  IF \E n \in 1..Len(at) : at[n] \notin DOMAIN image[1]
        THEN Raised("IndexError")
        ELSE Returned(<<label, MeanOf([n \in 1..Len(at) |-> image[1][at[n]]])>>)

\* the element an item of the argument stream yields when it is asked for
ElementOf(item, image, mask) ==
    CASE item[1] = "voxel" -> PixelElement(image, item[2])
      [] item[1] = "label" -> LabelElement(image, mask[1], item[2])
      [] OTHER             -> Returned(item[2])

\* FitData.fit_segmentation_wise (fit/fit.py): seg_number is the list
\* [n_segmentations], the signal the mean over every voxel of the stream,
\* and seg_args the bare tuple (seg_number, seg_signal)
SegArgs(image, mask) ==
    LET nz == NonzeroWithin(mask[1], 0)
        signals == [n \in 1..Len(nz) |-> image[1][nz[n]]]
    IN  IF \E n \in 1..Len(nz) : nz[n] \notin DOMAIN image[1]
        THEN Raised("IndexError")
        ELSE IF nz = <<>> THEN Raised("ValueError")
        ELSE Returned(<< <<"ready", <<NSegmentations(mask[1])>> >>,
                         <<"ready", MeanOf(signals)>> >>)

\* fit.fit_pixel_wise of the fitting package on missing data
FitModuleMissingData(image, mask) ==
    IF image = <<>> \/ mask = <<>> THEN "ValueError" ELSE ""

\* a guard that looks at the mask only
MissingMaskOnly(class, method, image, mask) ==
    IF mask = <<>> THEN "ValueError" ELSE ""

\* what a fit method does about missing data before any argument is
\* generated: fit/fit.py reads self.img.array and self.seg.array (or
\* self.seg.n_segmentations), an AttributeError on None;
\* fitdata.fit_segmentation_wise raises ValueError;
\* fitdata.fit_pixel_wise hands img and seg to fit.fit_pixel_wise
MissingData(class, method, image, mask) ==
    IF class = "fit"
    THEN IF image = <<>> \/ mask = <<>> THEN "AttributeError" ELSE ""
    ELSE IF method = "segmentation"
    THEN IF image = <<>> \/ mask = <<>> THEN "ValueError" ELSE ""
    ELSE FitModuleMissingData(image, mask)

\* the fit function of the object on one argument: the solver on a signal
\* with another length than the basis has rows fails, "except:" gives zeros
RunFit(idx, signal, b_values) ==
    IF Len(signal) # Len(b_values) THEN Returned(<<idx, Zeros(NBins)>>)
    ELSE FitSpectral("NNLS", idx, signal)

\* pool.starmap returns when any task has been handed back
StarmapAnyDone(slots_) == \E n \in DOMAIN slots_ : slots_[n] # <<>>

\* pool.starmap returns when every task has been handed back
StarmapDone(slots_) == \A n \in DOMAIN slots_ : slots_[n] # <<>>

\* the outcomes handed back so far, in task order
RECURSIVE Collected(_)
Collected(slots_) ==
    IF slots_ = <<>> THEN <<>> ELSE Head(slots_) \o Collected(Tail(slots_))

\* eval_fitting_results / Results.eval_results: one entry per coordinate
ResultsOf(out) == [c \in Range(Keys(out)) |-> LastOf(out, c)]

\* the call fit(fit_function, stream, n_pools, multi_threading) on a
\* stream: starmap takes list(stream) before the first task is handed out,
\* the loop asks for one element at a time
Dispatch(stream, mt) ==
    LET failing == {n \in 1..Len(stream) :
                       ElementOf(stream[n], fd_img, fd_seg).raised}
        first == CHOOSE n \in failing : \A m \in failing : n <= m
    IN  /\ fd_stream' = stream
        /\ fd_pos' = 0
        /\ IF mt /\ failing # {}
           THEN /\ fd_pc' = "raised"
                /\ fd_error' = ElementOf(stream[first], fd_img, fd_seg).value
                /\ fd_busy' = <<>>
                /\ fd_slots' = <<>>
           ELSE /\ fd_pc' = IF mt THEN "pool" ELSE "seq"
                /\ fd_error' = ""
                /\ fd_busy' = [w \in 1..(IF mt THEN MaxPools ELSE 0) |-> 0]
                /\ fd_slots' = [n \in 1..(IF mt THEN Len(stream) ELSE 0) |-> <<>>]

\* the call leaves with an exception before any dispatch
Leave(why) ==
    /\ fd_pc' = "raised"
    /\ fd_error' = why
    /\ UNCHANGED <<fd_stream, fd_pos, fd_busy, fd_slots>>

\* FitData.fit_pixel_wise(multi_threading)
FitPixelWise(mt) ==
    /\ fd_pc = "start"
    /\ fd_method' = "pixel"
    /\ fd_mt' = mt
    /\ LET missing == MissingData(fd_class, "pixel", fd_img, fd_seg)
       IN  IF missing # "" THEN Leave(missing)
           ELSE Dispatch(LazyPixelArgs(fd_seg[1]), mt)
    /\ UNCHANGED <<fd_class, fd_img, fd_seg, fd_b_values, fd_fitted, fd_out,
                   fd_results, dvars, svars, rvars, pvars, ivars, avars, ovars>>

\* FitData.fit_segmentation_wise()
FitSegmentationWise ==
    /\ fd_pc = "start"
    /\ fd_method' = "segmentation"
    /\ fd_mt' = FALSE
    /\ LET missing == MissingData(fd_class, "segmentation", fd_img, fd_seg)
       IN  IF missing # "" THEN Leave(missing)
           ELSE IF fd_class = "fit"
           THEN IF SegArgs(fd_img, fd_seg).raised
                THEN Leave(SegArgs(fd_img, fd_seg).value)
                ELSE Dispatch(SegArgs(fd_img, fd_seg).value, FALSE)
           ELSE Dispatch([k \in 1..Len(SegValues(fd_seg[1])) |->
                             <<"label", SegValues(fd_seg[1])[k]>>], FALSE)
    /\ UNCHANGED <<fd_class, fd_img, fd_seg, fd_b_values, fd_fitted, fd_out,
                   fd_results, dvars, svars, rvars, pvars, ivars, avars, ovars>>

\* one iteration of "for element in element_args:
\* results.append(fit_function(idx=element[0], signal=element[1]))"
FitLoopStep ==
    /\ fd_pc = "seq"
    /\ fd_pos < Len(fd_stream)
    /\ LET element == ElementOf(fd_stream[fd_pos + 1], fd_img, fd_seg)
       IN  IF element.raised
           THEN /\ fd_pc' = "raised"
                /\ fd_error' = element.value
                /\ UNCHANGED <<fd_pos, fd_fitted, fd_out>>
           ELSE IF Len(element.value) < 2
           THEN /\ fd_pc' = "raised"
                /\ fd_error' = "IndexError"
                /\ UNCHANGED <<fd_pos, fd_fitted, fd_out>>
           ELSE /\ fd_fitted' = Append(fd_fitted, element.value)
                /\ fd_out' = Append(fd_out,
                      RunFit(element.value[1], element.value[2], fd_b_values).value)
                /\ fd_pos' = fd_pos + 1
                /\ UNCHANGED <<fd_pc, fd_error>>
    /\ UNCHANGED <<fd_class, fd_img, fd_seg, fd_b_values, fd_method, fd_mt,
                   fd_stream, fd_busy, fd_slots, fd_results, dvars, svars,
                   rvars, pvars, ivars, avars, ovars>>

\* the loop is exhausted: fit returns results
FitLoopEnd ==
    /\ fd_pc = "seq"
    /\ fd_pos = Len(fd_stream)
    /\ fd_pc' = "fitted"
    /\ UNCHANGED <<fd_class, fd_img, fd_seg, fd_b_values, fd_method, fd_mt,
                   fd_stream, fd_pos, fd_busy, fd_slots, fd_fitted, fd_out,
                   fd_results, fd_error, dvars, svars, rvars, pvars, ivars, avars, ovars>>

\* pool.starmap: an idle worker takes the next task and calls the fit
\* function on it
FitWorkerTake(w) ==
    /\ fd_pc = "pool"
    /\ w \in DOMAIN fd_busy
    /\ fd_busy[w] = 0
    /\ fd_pos < Len(fd_stream)
    /\ fd_busy' = [fd_busy EXCEPT ![w] = fd_pos + 1]
    /\ fd_pos' = fd_pos + 1
    /\ fd_fitted' = Append(fd_fitted,
                       ElementOf(fd_stream[fd_pos + 1], fd_img, fd_seg).value)
    /\ UNCHANGED <<fd_class, fd_img, fd_seg, fd_b_values, fd_method, fd_mt,
                   fd_pc, fd_stream, fd_slots, fd_out, fd_results, fd_error,
                   dvars, svars, rvars, pvars, ivars, avars, ovars>>

\* the worker hands the value of the fit function back to the caller
FitWorkerFinish(w) ==
    /\ fd_pc = "pool"
    /\ w \in DOMAIN fd_busy
    /\ fd_busy[w] # 0
    /\ LET element == ElementOf(fd_stream[fd_busy[w]], fd_img, fd_seg).value
       IN  fd_slots' = [fd_slots EXCEPT ![fd_busy[w]] =
                           <<RunFit(element[1], element[2], fd_b_values).value>>]
    /\ fd_busy' = [fd_busy EXCEPT ![w] = 0]
    /\ UNCHANGED <<fd_class, fd_img, fd_seg, fd_b_values, fd_method, fd_mt,
                   fd_pc, fd_stream, fd_pos, fd_fitted, fd_out, fd_results,
                   fd_error, dvars, svars, rvars, pvars, ivars, avars, ovars>>

\* starmap returns the outcomes in task order; fit returns them
FitPoolReturn ==
    /\ fd_pc = "pool"
    /\ StarmapDone(fd_slots)
    /\ fd_out' = Collected(fd_slots)
    /\ fd_pc' = "fitted"
    /\ UNCHANGED <<fd_class, fd_img, fd_seg, fd_b_values, fd_method, fd_mt,
                   fd_stream, fd_pos, fd_busy, fd_slots, fd_fitted, fd_results,
                   fd_error, dvars, svars, rvars, pvars, ivars, avars, ovars>>

\* the caller stores the evaluated results:
\* self.fit_results = self.fit_params.eval_fitting_results(results, seg) /
\* self.results.eval_results(results)
FitEvalResults ==
    /\ fd_pc = "fitted"
    /\ fd_results' = <<ResultsOf(fd_out)>>
    /\ fd_pc' = "done"
    /\ UNCHANGED <<fd_class, fd_img, fd_seg, fd_b_values, fd_method, fd_mt,
                   fd_stream, fd_pos, fd_busy, fd_slots, fd_fitted, fd_out,
                   fd_error, dvars, svars, rvars, pvars, ivars, avars, ovars>>

(***************************************************************************)
(* Reassembly of a result list into arrays and mappings.                   *)
(***************************************************************************)
\* a loop that writes the n-th result at the n-th coordinate of the array
RECURSIVE SortFitArrayByOrder(_, _)
SortFitArrayByOrder(list, array) ==
    IF list = <<>> THEN array
    ELSE LET n == Cardinality(DOMAIN array) - Len(list)
         IN  SortFitArrayByOrder(Tail(list),
                 [array EXCEPT ![<<n % Cardinality(DOMAIN array), 0, 0>>] = Head(list)[2]])

\* sort_fit_array: "for element in results: array[element[0]] = element[1]"
RECURSIVE SortFitArray(_, _)
SortFitArray(list, array) ==
    IF list = <<>> THEN array
    ELSE SortFitArray(Tail(list),
             [array EXCEPT ![Head(list)[1]] = Head(list)[2]])

\* "for element in results: mapping[element[0]] = element[1]" on a dict
RECURSIVE AssignEach(_, _)
AssignEach(list, mapping) ==
    IF list = <<>> THEN mapping
    ELSE AssignEach(Tail(list), (Head(list)[1] :> Head(list)[2]) @@ mapping)

\* NNLSParams.eval_fitting_results: the spectrum array starts as np.zeros
\* and gets each vector at its coordinate; d holds the bins of the peaks of
\* the vector, f their heights over the sum of the heights
NNLSEvalFittingResults(list) ==
    LET idx(n) == FindPeaks(list[n][2], MinHeight)
        heights(n) == PeakHeights(list[n][2], idx(n))
    IN  [spectrum |-> SortFitArray(list, [c \in Coords |-> Zeros(NBins)]),
         d |-> AssignEach([n \in 1..Len(list) |->
                   <<list[n][1], [k \in 1..Len(idx(n)) |-> Bins[idx(n)[k]]]>>], <<>>),
         f |-> AssignEach([n \in 1..Len(list) |->
                   <<list[n][1], <<heights(n), SumSeq(heights(n))>> >>], <<>>)]

\* the caller reassembles the result list
Reassemble ==
    /\ re_first = <<>>
    /\ re_first' = <<NNLSEvalFittingResults(re_results)>>
    /\ UNCHANGED <<re_results, re_permuted, re_second, dvars, svars, rvars,
                   pvars, ivars, fvars, ovars>>

\* the caller reassembles the results handed over in the other order
ReassemblePermuted ==
    /\ re_second = <<>>
    /\ re_second' = <<NNLSEvalFittingResults(re_permuted)>>
    /\ UNCHANGED <<re_results, re_permuted, re_first, dvars, svars, rvars,
                   pvars, ivars, fvars, ovars>>

(***************************************************************************)
(* IVIMSegmentedParams.set_options (parameters/ivim.py).  A boundary dict  *)
(* is kept as its keys: top-level key -> set of second-level keys.         *)
(***************************************************************************)
\* fixed_component.split("_")
SplitComponent(fixed_component) ==
    IF fixed_component = "D_slow" THEN <<"D", "slow">> ELSE <<"D", "fast">>

\* dict.pop(key) on the top level of a boundary dict
WithoutKey(dict, key) == [k \in DOMAIN dict \ {key} |-> dict[k]]

\* IVIMSegmentedParams.set_options on the object obj: the object the call
\* leaves and whether the call raised.  fixed_component is "None" or
\* "D_slow"/"D_fast", reduced is <<>> for None or <<list>>.
SetOptions(obj, fixed_component, fixed_t1, reduced) ==
    LET stored == [obj EXCEPT !.options = [fixed_component |-> fixed_component,
                                           fixed_t1 |-> fixed_t1,
                                           reduced_b_values |-> reduced]]
        \* if fixed_t1: params_fixed.TM = self.TM; self.TM = None
        moved == IF fixed_t1
                 THEN [stored EXCEPT !.fixed.TM = obj.TM, !.TM = <<>>]
                 ELSE stored
        keys == SplitComponent(fixed_component)
        dict == moved.boundaries
        \* boundary_dict["T"] = self.boundaries.dict.pop("T", KeyError(..))
        popped == IF fixed_t1 THEN WithoutKey(dict, "T") ELSE dict
        t_entry == IF "T" \in DOMAIN dict THEN dict["T"] ELSE {"KeyError"}
        first == (keys[1] :> {keys[2]})
                 @@ (IF fixed_t1 THEN ("T" :> t_entry) ELSE <<>>)
                 @@ (IF moved.scale_image = "S/S0" THEN <<>> ELSE ("S" :> {"0"}))
        \* boundary_dict = self.boundaries.dict.copy();
        \* boundary_dict[keys[0]].pop(keys[1])
        second == [popped EXCEPT ![keys[1]] = @ \ {keys[2]}]
        bounded ==
            IF keys[1] \notin DOMAIN dict \/ keys[2] \notin dict[keys[1]]
            THEN [raised |-> TRUE, obj |-> moved]
            ELSE IF moved.scale_image # "S/S0"
                    /\ ("S" \notin DOMAIN popped \/ "0" \notin popped["S"])
            THEN [raised |-> TRUE,
                  obj |-> [moved EXCEPT !.boundaries = popped,
                                        !.fixed.scale_image = moved.scale_image]]
            ELSE [raised |-> FALSE,
                  obj |-> [moved EXCEPT !.boundaries = second,
                                        !.fixed.scale_image = moved.scale_image,
                                        !.fixed.boundaries = first]]
        after == IF fixed_component = "None"
                 THEN [raised |-> FALSE, obj |-> moved]
                 ELSE bounded
    IN  IF after.raised THEN after
        ELSE [raised |-> FALSE,
              obj |-> [after.obj EXCEPT !.fixed.b_values =
                          IF reduced # <<>> /\ reduced[1] # <<>>
                          THEN reduced[1] ELSE after.obj.b_values]]

\* IVIMSegmentedParams.__init__ up to its set_options call: the values of
\* the json file, options = the keyword arguments, params_fixed a fresh
\* IVIMParams with init_fixed_params applied
SegmentedInit(config) ==
    [TM |-> config.TM,
     b_values |-> config.b_values,
     scale_image |-> config.scale_image,
     boundaries |-> config.boundaries,
     options |-> config.options,
     fixed |-> [TM |-> <<>>, n_components |-> 1, b_values |-> <<>>,
                scale_image |-> config.scale_image, boundaries |-> <<>>]]

\* IVIMSegmentedParams.fit_function: the TM the Stage-2 fit function is
\* bound with
BoundTM(obj) == IF ~obj.options.fixed_t1 THEN obj.TM ELSE <<>>

\* a call of set_options on the constructed object
SetOptionsCall(fixed_component, fixed_t1, reduced) ==
    /\ "TM" \in DOMAIN seg_params
    /\ LET out == SetOptions(seg_params, fixed_component, fixed_t1, reduced)
       IN  /\ seg_params' = out.obj
           /\ seg_call' = [fixed_component |-> fixed_component,
                           fixed_t1 |-> fixed_t1,
                           reduced_b_values |-> reduced,
                           before |-> seg_params,
                           raised |-> out.raised]
    /\ seg_calls' = Min(seg_calls + 1, 2)
    /\ UNCHANGED <<seg_config, dvars, svars, rvars, pvars, ivars, fvars, avars>>

(***************************************************************************)
(* Specifications.                                                         *)
(***************************************************************************)
\* per-voxel maps a caller can hand over as fixed values
FixedMaps == {[c \in Coords |-> 0], [c \in Coords |-> c[1] + 1]}

FixedChoices(n) ==
    CASE n = 0 -> {<<>>}
      [] n = 1 -> {<<m>> : m \in FixedMaps}
      [] OTHER -> {<<m, t>> : m \in FixedMaps, t \in FixedMaps}

NoOptions == [fixed_t1 |-> FALSE, reduced_b_values |-> <<>>]

NoIVIMEvaluation ==
    /\ n_components = 0
    /\ TM = <<>>
    /\ version = "parameters"
    /\ fit_list = <<>>
    /\ fit_results = <<>>
    /\ ipc = "none"

NoFitRun ==
    /\ fd_class = "fit"
    /\ fd_img = <<>>
    /\ fd_seg = <<>>
    /\ fd_b_values = <<>>
    /\ fd_method = ""
    /\ fd_mt = FALSE
    /\ fd_pc = "none"
    /\ fd_stream = <<>>
    /\ fd_pos = 0
    /\ fd_busy = <<>>
    /\ fd_slots = <<>>
    /\ fd_fitted = <<>>
    /\ fd_out = <<>>
    /\ fd_results = <<>>
    /\ fd_error = ""

NoReassembly ==
    /\ re_results = <<>>
    /\ re_permuted = <<>>
    /\ re_first = <<>>
    /\ re_second = <<>>

NoSegmentedParams ==
    /\ seg_config = <<>>
    /\ seg_params = <<>>
    /\ seg_call = <<>>
    /\ seg_calls = 0

NoExtras ==
    /\ NoIVIMEvaluation
    /\ NoFitRun
    /\ NoReassembly
    /\ NoSegmentedParams

NoEvaluation ==
    /\ params_class = "NNLS"
    /\ reg_order = 0
    /\ weights = <<>>
    /\ rpc = "none"
    /\ rerror = ""
    /\ fit_d = <<>>
    /\ fit_f = <<>>
    /\ fit_den = 0
    /\ d_values = <<>>
    /\ f_values = <<>>
    /\ d_AUC = <<>>
    /\ f_AUC = <<>>
    /\ regime = 0

NoParameters ==
    /\ params = <<>>
    /\ json_file = <<>>
    /\ loaded = <<>>
    /\ ppc = "none"
    /\ perror = ""
    /\ call = <<>>

InitCall ==
    /\ NoEvaluation
    /\ NoParameters
    /\ pixel_args = <<>>
    /\ n_pools = <<>>
    /\ multi_threading = FALSE
    /\ pc = "start"
    /\ pos = 0
    /\ results = <<>>
    /\ busy = <<>>
    /\ slots = <<>>
    /\ error = ""
    /\ prev = <<>>
    /\ evaluated = <<>>

\* argument generation alone
InitArgs ==
    /\ img \in Grids
    /\ seg \in Masks
    /\ dispatcher \in Dispatchers
    /\ fit_kind = "NNLS"
    /\ fixed_results = <<>>
    /\ stage = 0
    /\ options = NoOptions
    /\ InitCall
    /\ NoExtras

NextArgs ==
    \/ GetPixelArgs
    \/ \E debug \in BOOLEAN : LegacyGetArgs(debug)

SpecArgs == InitArgs /\ [][NextArgs]_vars

\* one dispatch, or a sequential dispatch followed by a parallel one
Init ==
    /\ img \in Grids
    /\ seg \in BinaryMasks
    /\ dispatcher \in Dispatchers
    /\ fit_kind \in FitKinds
    /\ dispatcher = "fit_legacy" => Arity(fit_kind) = 0
    /\ fixed_results \in FixedChoices(Arity(fit_kind))
    /\ stage = 0
    /\ options = NoOptions
    /\ InitCall
    /\ NoExtras

Next ==
    \/ GetPixelArgs
    \/ \E debug \in BOOLEAN : LegacyGetArgs(debug)
    \/ \E p \in PoolChoices : CallMultithreader(p)
    \/ \E p \in PoolChoices, mt \in BOOLEAN : CallFit(p, mt)
    \/ \E p \in PoolChoices : CallFitLegacy(p)
    \/ SeqStep
    \/ SeqReturn
    \/ \E w \in 1..(MaxPools) : WorkerTake(w)
    \/ \E w \in 1..(MaxPools) : WorkerFinish(w)
    \/ PoolReturn
    \/ PoolRaise
    \/ Repeat

Spec == Init /\ [][Next]_vars

\* a segmented IVIM fitting run
InitSegmented ==
    /\ img \in Grids
    /\ seg \in BinaryMasks
    /\ dispatcher = "multithreader"
    /\ options \in [fixed_t1 : BOOLEAN, reduced_b_values : ReducedChoices]
    /\ fit_kind = IF options.fixed_t1 THEN "IVIMT1" ELSE "IVIM"
    /\ fixed_results = <<>>
    /\ stage = 1
    /\ InitCall
    /\ NoExtras

NextSegmented ==
    \/ SegmentedStart
    \/ \E p \in PoolChoices : CallMultithreader(p)
    \/ SeqStep
    \/ SeqReturn
    \/ \E w \in 1..(MaxPools) : WorkerTake(w)
    \/ \E w \in 1..(MaxPools) : WorkerFinish(w)
    \/ PoolReturn
    \/ SegmentedTransition
    \/ SegmentedEvaluate

SpecSegmented == InitSegmented /\ [][NextSegmented]_vars

\* evaluation of the fitted spectrum of one voxel
InitResults ==
    /\ img = [c \in Coords |-> <<3, 1>>]
    /\ seg = [c \in Coords |-> 1]
    /\ dispatcher = "multithreader"
    /\ fit_kind = "NNLS"
    /\ fixed_results = <<>>
    /\ stage = 0
    /\ options = NoOptions
    /\ pixel_args = <<>>
    /\ n_pools = <<>>
    /\ multi_threading = FALSE
    /\ pc = "returned"
    /\ pos = 0
    /\ results = <<>>
    /\ busy = <<>>
    /\ slots = <<>>
    /\ error = ""
    /\ prev = <<>>
    /\ evaluated = <<>>
    /\ params_class \in ParamsClasses
    /\ reg_order \in IF params_class = "NNLSreg" THEN RegOrders ELSE {0}
    /\ weights \in WeightVectors
    /\ NoParameters
    /\ NoExtras
    /\ rpc = "fitted"
    /\ rerror = ""
    /\ fit_d = <<>>
    /\ fit_f = <<>>
    /\ fit_den = 0
    /\ d_values = <<>>
    /\ f_values = <<>>
    /\ d_AUC = <<>>
    /\ f_AUC = <<>>
    /\ regime = 0

NextResults ==
    \/ EvalFittingResults
    \/ ApplyAUCStart
    \/ ApplyAUCRegime
    \/ ApplyAUCReturn

SpecResults == InitResults /\ [][NextResults]_vars


\* the fractions f_1..f_k of the impulses sum to 1.0 = 20 * 0.05
UnitSum == 20

\* impulses of a synthetic spectrum (random.sample(..., 3))
ImpulseCount == 3

\* vectors of n entries that sum to total with at most k entries not zero
RECURSIVE VectorsWithSum(_, _, _)
VectorsWithSum(n, total, k) ==
    IF n = 0
    THEN IF total = 0 THEN {<<>>} ELSE {}
    ELSE {Append(v, 0) : v \in VectorsWithSum(n - 1, total, k)}
         \cup (IF k = 0 THEN {}
               ELSE UNION {{Append(v, a) : v \in VectorsWithSum(n - 1, total - a, k - 1)}
                           : a \in 1..total})

\* spectrum = sum of f_i * unit_impulse(n_bins, index_i): up to ImpulseCount
\* impulses anywhere on the bin axis
ImpulseVectors == VectorsWithSum(NBins, UnitSum, ImpulseCount)

\* evaluation of a synthetic spectrum of impulses by NNLSParams
InitImpulses ==
    /\ img = [c \in Coords |-> <<3, 1>>]
    /\ seg = [c \in Coords |-> 1]
    /\ dispatcher = "multithreader"
    /\ fit_kind = "NNLS"
    /\ fixed_results = <<>>
    /\ stage = 0
    /\ options = NoOptions
    /\ pixel_args = <<>>
    /\ n_pools = <<>>
    /\ multi_threading = FALSE
    /\ pc = "returned"
    /\ pos = 0
    /\ results = <<>>
    /\ busy = <<>>
    /\ slots = <<>>
    /\ error = ""
    /\ prev = <<>>
    /\ evaluated = <<>>
    /\ params_class = "NNLS"
    /\ reg_order = 0
    /\ weights \in ImpulseVectors
    /\ NoParameters
    /\ NoExtras
    /\ rpc = "fitted"
    /\ rerror = ""
    /\ fit_d = <<>>
    /\ fit_f = <<>>
    /\ fit_den = 0
    /\ d_values = <<>>
    /\ f_values = <<>>
    /\ d_AUC = <<>>
    /\ f_AUC = <<>>
    /\ regime = 0

SpecImpulses == InitImpulses /\ [][NextResults]_vars

\* construction, configuration and use of a parameter object
InitParams ==
    /\ img = [c \in Coords |-> <<3, 1>>]
    /\ seg = [c \in Coords |-> 1]
    /\ dispatcher = "fit"
    /\ fit_kind = "NNLS"
    /\ fixed_results = <<>>
    /\ stage = 0
    /\ options = NoOptions
    /\ NoEvaluation
    /\ pixel_args = <<>>
    /\ n_pools = <<>>
    /\ multi_threading = FALSE
    /\ pc = "start"
    /\ pos = 0
    /\ results = <<>>
    /\ busy = <<>>
    /\ slots = <<>>
    /\ error = ""
    /\ prev = <<>>
    /\ evaluated = <<>>
    /\ params = <<>>
    /\ json_file = <<>>
    /\ loaded = <<>>
    /\ ppc = "new"
    /\ perror = ""
    /\ call = <<>>
    /\ NoExtras

NextParams ==
    \/ ConstructParameters
    \/ \E n_bins \in NBinsChoices : ConstructNNLS(n_bins)
    \/ \E order \in RegOrders : ConstructNNLSreg(order)
    \/ \E order \in RegOrders : ConstructLegacyNNLSreg(order)
    \/ ConstructNNLSregCV
    \/ \E n \in 1..MaxComponents : \E a \in IVIMArguments(n) : ConstructIVIM(a)
    \/ \E order \in RegOrders : AssignRegOrder(order)
    \/ \E n_bins \in NBinsChoices : AssignNBins(n_bins)
    \/ \E n \in 1..MaxComponents : AssignNComponents(n)
    \/ SaveToJsonCall
    \/ \E file \in ConfigFiles : WriteConfig(file)
    \/ LoadFromJsonCall
    \/ GetModelCall
    \/ Adopt
    \/ GetBasisCall
    \/ RegGetPixelArgsCall
    \/ FitPixelWiseBind

SpecParams == InitParams /\ [][NextParams]_vars

\* fitted coefficients of three components: apart, two of them nearest to
\* the same bin, two of them equal
DTriples == {<<5, 100, 1000>>, <<1, 2, 4096>>, <<16, 16, 64>>}

\* fitted fractions of the first two components
FPairs == {<<3000, 5000>>, <<0, 0>>, <<10000, 0>>}

\* fitted scale (210) and fitted T1 (1750)
ScaleAndT1 == <<2100000, 17500000>>

\* TM of the evaluating object: None or a mixing time
TMChoices == {<<>>, <<200>>}

\* component counts with literal defaults in set_boundaries
IVIMComponents == 1..3

\* the parameter vectors a fit returns: n coefficients, n - 1 fractions and
\* the scale, with T1 as trailing entry when TM is set
IVIMVectors(n, tm) ==
    {PySlice(d, 0, n) \o PySlice(f, 0, n - 1) \o <<ScaleAndT1[1]>>
        \o (IF tm # <<>> THEN <<ScaleAndT1[2]>> ELSE <<>>) :
        d \in DTriples, f \in FPairs}

\* the parameter vectors of mono and mono_T1 of the first version:
\* (S0, d) and (S0, d, T1)
LegacyVectors(tm) ==
    {<<ScaleAndT1[1], d[1]>> \o (IF tm # <<>> THEN <<ScaleAndT1[2]>> ELSE <<>>) :
        d \in DTriples}

\* result lists: a vector for each voxel of a part of the grid, in the
\* order of the coordinates
ResultLists(vectors) ==
    {LET nz == Nonzero([c \in Coords |-> IF g[c] = <<>> THEN 0 ELSE 1])
     IN  [k \in 1..Len(nz) |-> <<nz[k], g[nz[k]]>>] :
        g \in [Coords -> vectors \cup {<<>>}]}

\* evaluation of the results of an IVIM fit
InitIVIMResults ==
    /\ img = [c \in Coords |-> <<3, 1>>]
    /\ seg = [c \in Coords |-> 1]
    /\ dispatcher = "fit"
    /\ fit_kind = "IVIM"
    /\ fixed_results = <<>>
    /\ stage = 0
    /\ options = NoOptions
    /\ InitCall
    /\ version \in {"parameters", "fit"}
    /\ n_components \in (IF version = "fit" THEN {1} ELSE IVIMComponents)
    /\ TM \in TMChoices
    /\ fit_list \in ResultLists(IF version = "fit" THEN LegacyVectors(TM)
                                ELSE IVIMVectors(n_components, TM))
    /\ fit_results = <<>>
    /\ ipc = "start"
    /\ NoFitRun
    /\ NoReassembly
    /\ NoSegmentedParams

NextIVIMResults ==
    \/ IVIMEvalCall
    \/ LegacyEvalCall

SpecIVIMResults == InitIVIMResults /\ [][NextIVIMResults]_vars

\* b-values of the parameters of a fit call
RunBValues == {<<0, 50>>, <<0, 50, 100>>}

\* a grid of gx voxels along x with nb samples per voxel
RunGrid(gx, nb) ==
    [c \in {<<i, 0, 0>> : i \in 0..(gx - 1)} |-> [n \in 1..nb |-> 12 * (c[1] + n)]]

RunGrids == {RunGrid(gx, nb) : gx \in (MaxX - 1)..MaxX, nb \in {2, 3}}

\* masks of MaxX - 1 or MaxX voxels along x
RunMasks ==
    UNION {[{<<i, 0, 0>> : i \in 0..(mx - 1)} -> 0..MaxLabel] :
              mx \in (MaxX - 1)..MaxX}

\* one fit call on a FitData object
InitFitRun ==
    /\ img = [c \in Coords |-> <<3, 1>>]
    /\ seg = [c \in Coords |-> 1]
    /\ dispatcher = "fit"
    /\ fit_kind = "NNLS"
    /\ fixed_results = <<>>
    /\ stage = 0
    /\ options = NoOptions
    /\ InitCall
    /\ NoIVIMEvaluation
    /\ fd_class \in FitDataClasses
    /\ fd_img \in {<<>>} \cup {<<g>> : g \in RunGrids}
    /\ fd_seg \in {<<>>} \cup {<<m>> : m \in RunMasks}
    /\ fd_b_values \in RunBValues
    /\ fd_method = ""
    /\ fd_mt = FALSE
    /\ fd_pc = "start"
    /\ fd_stream = <<>>
    /\ fd_pos = 0
    /\ fd_busy = <<>>
    /\ fd_slots = <<>>
    /\ fd_fitted = <<>>
    /\ fd_out = <<>>
    /\ fd_results = <<>>
    /\ fd_error = ""
    /\ NoReassembly
    /\ NoSegmentedParams

NextFitRun ==
    \/ \E mt \in BOOLEAN : FitPixelWise(mt)
    \/ FitSegmentationWise
    \/ FitLoopStep
    \/ FitLoopEnd
    \/ \E w \in 1..MaxPools : FitWorkerTake(w)
    \/ \E w \in 1..MaxPools : FitWorkerFinish(w)
    \/ FitPoolReturn
    \/ FitEvalResults

SpecFitRun == InitFitRun /\ [][NextFitRun]_vars

\* fitted vectors: no peak, one peak, two peaks
ReassemblyVectors ==
    {Zeros(NBins),
     [b \in 1..NBins |-> IF b = 2 THEN MaxWeight ELSE 0],
     [b \in 1..NBins |-> IF b \in {3, 5} THEN b - 1 ELSE 0]}

\* result lists with pairwise distinct coordinates, in the order of the
\* coordinates
DistinctResultLists ==
    UNION {{list \in [1..n -> Coords \X ReassemblyVectors] :
               \A k, m \in 1..n : k < m => Rank(list[k][1]) < Rank(list[m][1])} :
           n \in 0..Cardinality(Coords)}

\* the orders a result list can come in
PermutationsOf(list) ==
    {[n \in 1..Len(list) |-> list[p[n]]] : p \in Permutations(1..Len(list))}

\* the reassembly of a result list and of a permutation of it
InitReassembly ==
    /\ img = [c \in Coords |-> <<3, 1>>]
    /\ seg = [c \in Coords |-> 1]
    /\ dispatcher = "fit"
    /\ fit_kind = "NNLS"
    /\ fixed_results = <<>>
    /\ stage = 0
    /\ options = NoOptions
    /\ InitCall
    /\ NoIVIMEvaluation
    /\ NoFitRun
    /\ re_results \in DistinctResultLists
    /\ re_permuted \in PermutationsOf(re_results)
    /\ re_first = <<>>
    /\ re_second = <<>>
    /\ NoSegmentedParams

NextReassembly ==
    \/ Reassemble
    \/ ReassemblePermuted

SpecReassembly == InitReassembly /\ [][NextReassembly]_vars

\* the options a segmented parameter object is given
ComponentChoices == {"None", "D_slow", "D_fast"}

ReducedLists == {<<>>, << <<0>> >>}

SegmentedOptions ==
    [fixed_component : ComponentChoices, fixed_t1 : BOOLEAN,
     reduced_b_values : ReducedLists]

\* json files of a segmented parameter object: with or without a mixing
\* time (and T1 boundaries), with or without S/S0 scaling
SegmentedConfigs ==
    {[TM |-> tm, b_values |-> BValues, scale_image |-> sc, options |-> o,
      boundaries |-> (("D" :> {"slow", "fast"}) @@ ("f" :> {"fast"})
                      @@ ("S" :> {"0"})
                      @@ (IF tm # <<>> THEN ("T" :> {"1"}) ELSE <<>>))] :
        tm \in TMChoices, sc \in {"S/S0", "None"}, o \in SegmentedOptions}

\* a constructed IVIMSegmentedParams object: __init__ ends with set_options
InitOptions ==
    /\ img = [c \in Coords |-> <<3, 1>>]
    /\ seg = [c \in Coords |-> 1]
    /\ dispatcher = "fit"
    /\ fit_kind = "IVIM"
    /\ fixed_results = <<>>
    /\ stage = 0
    /\ options = NoOptions
    /\ InitCall
    /\ NoIVIMEvaluation
    /\ NoFitRun
    /\ NoReassembly
    /\ seg_config \in SegmentedConfigs
    /\ seg_params = SetOptions(SegmentedInit(seg_config),
                               seg_config.options.fixed_component,
                               seg_config.options.fixed_t1,
                               seg_config.options.reduced_b_values).obj
    /\ seg_call = <<>>
    /\ seg_calls = 0

NextOptions ==
    \E o \in SegmentedOptions :
        SetOptionsCall(o.fixed_component, o.fixed_t1, o.reduced_b_values)

SpecOptions == InitOptions /\ [][NextOptions]_vars

(***************************************************************************)
(* Properties.                                                             *)
(***************************************************************************)
\* an element of the stream as (coordinate, signal, extras...): the debug
\* stream of the first version wraps the pair in a 1-tuple
Canon(e) == IF Len(e) = 1 THEN e[1] ELSE e

ArgCoords == {Canon(pixel_args[n])[1] : n \in 1..Len(pixel_args)}

MaskCoords == {c \in Coords : seg[c] # 0}

ResultCoords(res) == {res[n][1] : n \in 1..Len(res)}

Done == pc \in {"returned", "raised"}

\* C1: for a stream of arguments with distinct coordinates and any worker
\* count, the dispatcher returns a list (it does not raise) with one result
\* per argument, and the coordinates of the results are the coordinates of
\* the arguments. Stated for the streams on which the fit function itself
\* does not raise.
C1_DispatcherReturnsEveryArgument ==
    (/\ Done
     /\ stage = 0
     /\ pixel_args # <<>>
     /\ \A n \in 1..Len(pixel_args) :
            ~StarmapCall(fit_kind, Canon(pixel_args[n])).raised)
    => /\ pc = "returned"
       /\ Len(results) = Len(pixel_args)
       /\ ResultCoords(results) = ArgCoords

\* C2: a sequential dispatch and a parallel dispatch of the same fit
\* function over the same arguments, extra per-voxel scalars included, end
\* the same way and give the same set of (coordinate, vector) pairs.
C2_SequentialEqualsParallel ==
    (Done /\ stage = 0 /\ prev # <<>>)
    => /\ prev[1].status = pc
       /\ {prev[1].results[n] : n \in 1..Len(prev[1].results)}
              = {results[n] : n \in 1..Len(results)}

\* C3: get_pixel_args yields exactly one tuple per voxel with a nonzero
\* mask value, none for a zero voxel, and the signal of the tuple of
\* coordinate c is the signal of the grid at c.
C3_PixelArgsMatchMask ==
    (pc = "idle" /\ stage = 0)
    => /\ Len(pixel_args) = Cardinality(MaskCoords)
       /\ ArgCoords = MaskCoords
       /\ \A n \in 1..Len(pixel_args) :
              Canon(pixel_args[n])[2] = img[Canon(pixel_args[n])[1]]

\* C3 witness: a stream of two voxels with different signals next to a
\* voxel the mask leaves out
C3_Witness ==
    /\ pc = "idle"
    /\ Len(pixel_args) = 2
    /\ Canon(pixel_args[1])[2] # Canon(pixel_args[2])[2]
    /\ \E c \in Coords : seg[c] = 0
    /\ \E c \in Coords : seg[c] > 1

\* C4: when the solver fails for a voxel the fit function does not raise;
\* the voxel's result is the zero vector of the expected length and the
\* batch completes.
C4_SolverFailureGivesZeroVector ==
    /\ error # "RuntimeError"
    /\ \A n \in 1..Len(results) : \A m \in 1..Len(pixel_args) :
          (/\ stage = 0
           /\ Canon(pixel_args[m])[1] = results[n][1]
           /\ SolverFails(Canon(pixel_args[m])[2]))
          => results[n][2] = Zeros(OutLen(fit_kind))


\* results of the first stage, kept at the transition
Stage1Results == prev[1].results

\* C5: in segmented fitting the fixed value(s) in the Stage-2 tuple of a
\* voxel are the first (and, with fixed_t1, second) entry of the Stage-1
\* result of the same coordinate, for every voxel of the mask.
C5_FixedValuesOfSameCoordinate ==
    stage >= 2
    => /\ ArgCoords = MaskCoords
       /\ \A n \in 1..Len(pixel_args) :
              /\ Len(pixel_args[n]) = IF options.fixed_t1 THEN 4 ELSE 3
              /\ \E m \in 1..Len(Stage1Results) :
                    /\ Stage1Results[m][1] = pixel_args[n][1]
                    /\ pixel_args[n][3] = Stage1Results[m][2][1]
                    /\ options.fixed_t1
                           => pixel_args[n][4] = Stage1Results[m][2][2]

\* C5 witness: Stage 2 of a run with fixed T1 whose voxels got different
\* fixed values
C5_Witness ==
    /\ stage = 2
    /\ options.fixed_t1
    /\ Len(pixel_args) >= 2
    /\ pixel_args[1][3] # pixel_args[2][3]
    /\ pixel_args[1][4] # pixel_args[1][3]

\* C6: a segmented run has two stages and no cycle: Stage 2 starts only
\* after Stage 1 returned a result for every voxel of the mask, the stage
\* never goes back and after the start of Stage 2 only the Stage-2 fit
\* function is applied, and at the end the Stage-2 results of every voxel
\* are evaluated together with the fixed component of Stage 1.
C6_TwoStagesNoCycle ==
    /\ [](stage >= 2 =>
            /\ prev # <<>>
            /\ prev[1].status = "returned"
            /\ ResultCoords(Stage1Results) = MaskCoords
            /\ fit_kind \in {"IVIMFixedComponent", "IVIMFixedComponentT1"})
    /\ [](stage = 1 => fit_kind \in {"IVIM", "IVIMT1"})
    /\ [][stage' >= stage]_vars
    /\ [](stage = 3 =>
            /\ evaluated # <<>>
            /\ evaluated[1].results = results
            /\ ResultCoords(evaluated[1].results) = MaskCoords
            /\ evaluated[1].fixed_component = fixed_results
            /\ \A n \in 1..Len(fixed_results) :
                   DOMAIN fixed_results[n] = MaskCoords)

\* C6 witness: an evaluated run over at least two voxels
C6_Witness ==
    /\ stage = 3
    /\ Len(results) >= 2
    /\ evaluated # <<>>

\* C7: whatever the Stage-1 outcomes, the Stage-2 stream has exactly the
\* voxels of the mask, and a voxel whose Stage-1 result is the zero vector
\* is in it with fixed value 0.
C7_FailedVoxelKept ==
    prev # <<>>
    => /\ stage >= 2
       /\ ArgCoords = MaskCoords
       /\ \A m \in 1..Len(Stage1Results) :
              Stage1Results[m][2] = Zeros(Len(Stage1Results[m][2]))
              => \E n \in 1..Len(pixel_args) :
                    /\ pixel_args[n][1] = Stage1Results[m][1]
                    /\ pixel_args[n][3] = 0

\* C7 witness: Stage 2 of a run in which one voxel failed in Stage 1 and
\* another did not
C7_Witness ==
    /\ stage = 2
    /\ \E m \in 1..Len(Stage1Results) :
          Stage1Results[m][2] = Zeros(Len(Stage1Results[m][2]))
    /\ \E m \in 1..Len(Stage1Results) : Stage1Results[m][2][1] # 0

\* the (coefficient, fraction) pairs of two parallel arrays
Pairs(d, f) == {<<d[n], f[n]>> : n \in 1..Min(Len(d), Len(f))}

\* peaks of the voxel that no regime analysed so far has merged
Unmerged ==
    {n \in 1..Len(fit_d) :
        \A r \in 1..(regime - 1) : fit_d[n] >= RegimeBoundaries[r]}

\* C8: while apply_AUC_to_results walks the regime boundaries low to high,
\* the peaks still to analyse are exactly the peaks no earlier regime
\* merged, each with its own fraction next to its own coefficient, so a
\* peak contributes its pair to at most one regime; the boolean indexing
\* never fails.
C8_PeakInAtMostOneRegime ==
    /\ rerror # "IndexError"
    /\ rpc \in {"auc", "auc_done"} =>
          /\ Len(d_values) = Len(f_values)
          /\ Pairs(d_values, f_values)
                = {<<fit_d[n], fit_f[n]>> : n \in Unmerged}

\* the detected peaks of the voxel are exactly one per regime
OnePerRegime ==
    /\ Len(fit_d) = NRegimes
    /\ \A r \in 1..NRegimes :
          /\ fit_d[r] < RegimeBoundaries[r]
          /\ r > 1 => fit_d[r] >= RegimeBoundaries[r - 1]

\* C9: for a voxel with exactly one detected peak per regime, whatever its
\* fractions, apply_AUC_to_results returns, and returns for each regime the
\* coefficient of the regime's peak and exactly that peak's fraction.
C9_OnePeakPerRegime ==
    OnePerRegime =>
        /\ rpc # "raised"
        /\ rpc = "auc_done" =>
              \A r \in 1..NRegimes :
                  /\ f_AUC[r] = fit_f[r]
                  /\ d_AUC[r][2] # 0
                  /\ d_AUC[r][1] = fit_d[r] * d_AUC[r][2]

\* peaks that eval_fitting_results of the voxel's class detects
DetectedPeaks ==
    FindPeaks(weights, IF params_class = "NNLS" THEN MinHeight ELSE MinHeightReg)

\* fractions of an evaluated voxel: they sum to 1 if a peak was detected,
\* and d and f are empty otherwise
FractionsSumToOne ==
    rpc \in {"evaluated", "auc", "auc_done"} =>
        IF DetectedPeaks # <<>>
        THEN /\ Len(fit_f) = Len(DetectedPeaks)
             /\ Len(fit_d) = Len(DetectedPeaks)
             /\ fit_den > 0
             /\ SumSeq(fit_f) = fit_den
             /\ \A n \in 1..Len(fit_f) : fit_f[n] >= 0
        ELSE fit_d = <<>> /\ fit_f = <<>>

\* C10: eval_fitting_results of a spectral model, unregularised or
\* regularised, raises no error, and the fractions it stores for the voxel
\* sum to 1 if at least one peak was detected and are empty, like the
\* coefficients, if none was.
C10_FractionsSumToOne ==
    /\ rerror # "TypeError"
    /\ FractionsSumToOne

\* bin indices that carry an impulse of the weight vector, in ascending order
ImpulseIndices == SortedSeq({b \in 1..Len(weights) : weights[b] # 0})

\* C11: for a weight vector that is a sum of impulses whose fractions sum to
\* 1, placed at distinct bins anywhere on the bin axis, the coefficients
\* NNLSParams.eval_fitting_results stores are the bin values at exactly the
\* indices of the impulses and the fractions stored are the fractions of the
\* impulses.
C11_ImpulsesRecovered ==
    (params_class = "NNLS" /\ SumSeq(weights) = UnitSum
       /\ rpc \in {"evaluated", "auc", "auc_done"}) =>
        /\ fit_d = [n \in 1..Len(ImpulseIndices) |-> Bins[ImpulseIndices[n]]]
        /\ Len(fit_f) = Len(ImpulseIndices)
        /\ \A n \in 1..Len(fit_f) :
              fit_f[n] * UnitSum = weights[ImpulseIndices[n]] * fit_den

\* the non-callable, non-private attributes of a parameter object,
\* boundaries included
DataAttributes(obj) ==
    {name \in Range(PublicAttributes) :
        /\ HasAttr(obj, name)
        /\ name # "boundaries" => obj[name].kind # "callable"}

\* the configuration file in place was written by save_to_json from the
\* object as it is, and load_from_json has read it
RoundTripDone ==
    /\ ppc = "ready"
    /\ loaded # <<>>
    /\ params.class \in ParameterClasses
    /\ ~SaveToJson(params).raised
    /\ json_file = SaveToJson(params).value

\* C12: save_to_json followed by load_from_json gives an object of the same
\* class in which every non-callable, non-private attribute, the boundaries
\* included, equals the one of the saved object.
C12_JsonRoundTrip ==
    RoundTripDone =>
        /\ ~loaded[1].raised
        /\ IsParameters(loaded[1].value)
        /\ loaded[1].value.class = params.class
        /\ \A name \in DataAttributes(params) :
              loaded[1].value[name] = params[name]

\* the configuration in place carries the Class tag of a parameter class
KnownClass(file) ==
    /\ ClassEntries(file) # {}
    /\ file[CHOOSE n \in ClassEntries(file) : TRUE][2].str \in ParameterClasses

\* C13: loading a configuration whose Class tag is absent or names no
\* parameter class raises; it never returns an object, a default one or
\* none at all.
C13_UnknownClassRaises ==
    (loaded # <<>> /\ ~KnownClass(json_file)) => loaded[1].raised

\* C14: a dot-separated key of a boundary field in the configuration
\* (boundaries.n_bins, boundaries.d_range, boundaries.lb) sets that field of
\* the object load_from_json creates, a list becoming an array; the key is
\* not ignored.
C14_DottedKeysSet ==
    (loaded # <<>> /\ ~loaded[1].raised /\ IsParameters(loaded[1].value)) =>
        \A n \in 1..Len(json_file) :
            LET path == json_file[n][1]
                value == json_file[n][2]
            IN  (Len(path) = 2 /\ path[1] = "boundaries") =>
                    loaded[1].value.boundaries[path[2]] =
                        IF value.kind = "list" THEN Array(value.data) ELSE value

\* the last call on the parameter object was op
LastCall(op) == "op" \in DOMAIN call /\ call.op = op

\* C15: NNLSregParams.get_basis raises exactly when reg_order is outside
\* {0, 1, 2, 3}; for each of these orders it returns the basis with the
\* penalty block of n_bins rows below the len(b_values) rows.
C15_BasisFailsOutsideRange ==
    LastCall("get_basis") =>
        /\ call.out.raised <=> params.reg_order.data[1] \notin 0..3
        /\ ~call.out.raised =>
              /\ call.out.value.n = params.boundaries.n_bins.data[1]
              /\ call.out.value.rows =
                    Len(params.b_values.data) + params.boundaries.n_bins.data[1]

\* C16: for reg_order = 0 the block get_basis appends below the exponential
\* basis is the n_bins x n_bins identity matrix times mu.
C16_OrderZeroIsIdentity ==
    (LastCall("get_basis") /\ params.reg_order.data[1] = 0) =>
        /\ ~call.out.raised
        /\ call.out.value.n = params.boundaries.n_bins.data[1]
        /\ \A i, j \in 1..call.out.value.n :
              BlockEntry(call.out.value.diagonals, i, j) = IF i = j THEN 1 ELSE 0

\* the object the caller holds is of a regularised class and its reg_order
\* is outside {0, 1, 2, 3}
UnsupportedRegOrder ==
    /\ "class" \in DOMAIN params
    /\ params.class \in RegClasses
    /\ params.reg_order.data[1] \notin 0..3

\* C17: an unsupported reg_order is rejected when the object is constructed
\* or the value is loaded or assigned: in no sequence of operations does an
\* object holding one reach fit_pixel_wise and fail only there.
C17_RegOrderRejectedEarly ==
    ~(LastCall("fit_pixel_wise") /\ call.out.raised /\ UnsupportedRegOrder)

\* C18: for a regularised class and every configured n_bins, each signal
\* get_pixel_args produces is the decay signal of its voxel followed by
\* zeros, and its length is len(b_values) + n_bins, the row count of the
\* basis get_basis returns.
C18_PaddedSignalMatchesBasis ==
    LastCall("get_pixel_args") =>
        \A n \in 1..Len(call.out.value) :
            LET signal == call.out.value[n][2]
                decay == img[call.out.value[n][1]]
            IN  /\ Len(signal) >= Len(decay)
                /\ SubSeq(signal, 1, Len(decay)) = decay
                /\ \A k \in (Len(decay) + 1)..Len(signal) : signal[k] = 0
                /\ Len(signal) =
                      Len(params.b_values.data) + params.boundaries.n_bins.data[1]
                /\ ~GetBasis(params).raised =>
                      Len(signal) = GetBasis(params).value.rows

\* set_boundaries has just filled the boundaries of the IVIM object: it was
\* constructed without vectors, or n_components was assigned and the setter
\* fell back to the defaults
DefaultsSet ==
    /\ ppc = "ready"
    /\ params.class = "IVIMParams"
    /\ \/ LastCall("IVIMParams") /\ call.arg.x0 = None
       \/ LastCall("n_components")
    /\ params.boundaries = SetBoundaries(params).boundaries

\* C19: for every component count n >= 1 the n_components setter accepts,
\* the default start, lower and upper vectors of set_boundaries have 2n
\* entries each: n coefficients, n - 1 fractions, one scale value.
C19_DefaultsHaveTwoNEntries ==
    (DefaultsSet /\ params.n_components.data[1] >= 1) =>
        \A field \in {"x0", "lb", "ub"} :
            Len(params.boundaries[field].data) = 2 * params.n_components.data[1]

\* IVIMParams was called with start, lower and upper vectors of 2n entries
\* for n components
VectorsSupplied ==
    /\ LastCall("IVIMParams")
    /\ call.arg.x0 # None
    /\ Len(call.arg.x0.data) = 2 * call.arg.n.data[1]

\* C20: vectors supplied to IVIMParams in the layout of n_components
\* override the defaults: the construction succeeds and the vectors bound
\* into fit_function are the supplied ones.
C20_SuppliedVectorsKept ==
    VectorsSupplied =>
        /\ ~call.out.raised
        /\ IVIMFitFunction(params).args = call.arg.x0
        /\ IVIMFitFunction(params).lb = call.arg.lb
        /\ IVIMFitFunction(params).ub = call.arg.ub

\* the evaluation of the IVIM results by fit/parameters.py has run
IVIMEvaluated == version = "parameters" /\ ipc # "start"

\* C21: on a vector of n coefficients, n - 1 fractions and a final scale,
\* IVIMParams.eval_fitting_results stores d = the first n entries, f = the
\* n - 1 explicit fractions followed by 1 - their sum, S0 = the final entry;
\* f has n entries that sum to 1 and d is as long as f.
C21_VectorLayoutStored ==
    (IVIMEvaluated /\ TM = <<>>) =>
        /\ ipc = "evaluated"
        /\ \A k \in 1..Len(fit_list) :
              LET c == fit_list[k][1]
                  v == fit_list[k][2]
                  n == n_components
                  explicit == [m \in 1..(n - 1) |-> v[n + m]]
                  stored == fit_results.value
              IN  /\ Len(v) = 2 * n
                  /\ stored.d[c] = [m \in 1..n |-> v[m]]
                  /\ stored.f[c] = explicit \o <<One - SumSeq(explicit)>>
                  /\ stored.S0[c] = v[2 * n]
                  /\ Len(stored.f[c]) = n
                  /\ SumSeq(stored.f[c]) = One
                  /\ Len(stored.d[c]) = Len(stored.f[c])

\* three components were evaluated for at least two voxels, the explicit
\* fractions not summing to 1
C21_Witness ==
    /\ IVIMEvaluated
    /\ TM = <<>>
    /\ ipc = "evaluated"
    /\ n_components = 3
    /\ Len(fit_list) >= 2
    /\ fit_list[1][2][4] + fit_list[1][2][5] # One
    /\ fit_results.value.f[fit_list[1][1]][3] > 0

\* C22: with TM set the vector carries T1 as trailing entry;
\* eval_fitting_results stores the trailing entry as T1, and S0 and the
\* fractions stored are the scale entry and the fraction entries.
C22_TrailingT1Stored ==
    (IVIMEvaluated /\ TM # <<>>) =>
        /\ ipc = "evaluated"
        /\ \A k \in 1..Len(fit_list) :
              LET c == fit_list[k][1]
                  v == fit_list[k][2]
                  n == n_components
                  explicit == [m \in 1..(n - 1) |-> v[n + m]]
                  stored == fit_results.value
              IN  /\ Len(v) = 2 * n + 1
                  /\ stored.T1[c] = <<v[2 * n + 1]>>
                  /\ stored.S0[c] = v[2 * n]
                  /\ stored.f[c] = explicit \o <<One - SumSeq(explicit)>>

\* d and f of every element of the list were stored before the spectrum is
\* built
ElementsStored ==
    /\ ipc # "start"
    /\ version = "parameters" =>
          \A k \in 1..Len(fit_list) :
              ~EvalElement(fit_list[k][2], n_components, TM).raised

\* b is the index of a bin nearest to D
IsNearest(b, D) == \A c \in 1..NBins : Abs(Bins[b] - D) <= Abs(Bins[c] - D)

\* C23: the spectrum of a fitted voxel holds each component's fraction at
\* the bin nearest to the component's coefficient, summed when components
\* share a bin, and zero elsewhere, so it sums to the sum of the fractions;
\* the spectrum of a voxel without fit result is all zero.
C23_SpectrumFromComponents ==
    ElementsStored =>
        /\ ipc = "evaluated"
        /\ \A c \in Coords :
              LET stored == fit_results.value
                  spectrum == stored.spectrum[c]
              IN  IF c \in DOMAIN stored.d
                  THEN /\ \A b \in 1..NBins :
                            spectrum[b] =
                                SumSeq([k \in 1..Len(stored.d[c]) |->
                                          IF IsNearest(b, stored.d[c][k])
                                          THEN stored.f[c][k] ELSE 0])
                       /\ SumSeq(spectrum) = SumSeq(stored.f[c])
                  ELSE spectrum = Zeros(NBins)

\* both grid and mask are supplied to the fit call
DataSupplied == fd_img # <<>> /\ fd_seg # <<>>

Mismatched ==
    /\ DataSupplied
    /\ \/ DOMAIN fd_img[1] # DOMAIN fd_seg[1]
       \/ Len(fd_img[1][<<0, 0, 0>>]) # Len(fd_b_values)

\* C25: a pixel-wise fit call on mismatched inputs has raised when the
\* argument stream was generated: the call is never past that point without
\* an error, and the fit function has not been invoked for any voxel
C25_MismatchRaisedInArgumentGeneration ==
    (fd_method = "pixel" /\ fd_class = "fit" /\ Mismatched)
        => (fd_pc = "raised" /\ fd_fitted = <<>>)

\* the arguments segmentation-wise fitting is to produce: per label of the
\* mask, in ascending order, the label and the mean signal of its voxels
LabelArguments ==
    [k \in 1..Len(SegValues(fd_seg[1])) |->
        LabelElement(fd_img, fd_seg[1], SegValues(fd_seg[1])[k]).value]

\* C26: a segmentation-wise fit call on matching inputs does not raise, and
\* when it has returned the fit function was invoked once per label of the
\* mask, on the label and the mean signal of the voxels carrying that label
C26_OneArgumentPerLabel ==
    (fd_method = "segmentation" /\ fd_class = "fit" /\ DataSupplied /\ ~Mismatched)
        => /\ fd_pc # "raised"
           /\ fd_pc \in {"fitted", "done"} => fd_fitted = LabelArguments

\* a pool worker is executing a fit
WorkerBusy == \E w \in DOMAIN fd_busy : fd_busy[w] # 0

\* C27: Results is written only when every worker fit of the run has
\* returned, no step taken while a worker executes a fit writes Results,
\* and no step of a run writes the grid or the mask
C27_ResultsWrittenAfterWorkers ==
    /\ [](fd_results # <<>> =>
            /\ ~WorkerBusy
            /\ \A n \in DOMAIN fd_slots : fd_slots[n] # <<>>)
    /\ [][/\ WorkerBusy => fd_results' = fd_results
          /\ fd_img' = fd_img
          /\ fd_seg' = fd_seg
          /\ fd_results' # fd_results => fd_pc = "fitted"]_vars

C27_Witness ==
    /\ fd_mt
    /\ fd_pc = "done"
    /\ fd_results # <<>>
    /\ Len(fd_out) >= 2

\* the reassembly of the list and of its permutation are both done
Reassembled == re_first # <<>> /\ re_second # <<>>

\* C28: a result list with pairwise distinct coordinates and any permutation
\* of it give the same spectrum array and the same d and f mappings; each
\* vector is stored at its own coordinate, every other position of the
\* spectrum keeps its initial zeros, and d and f have the coordinates of the
\* list as keys
C28_ReassemblyByCoordinate ==
    Reassembled =>
        /\ re_first = re_second
        /\ \A n \in 1..Len(re_permuted) :
              /\ re_first[1].spectrum[re_permuted[n][1]] = re_permuted[n][2]
              /\ re_first[1].d[re_permuted[n][1]]
                     = NNLSEvalFittingResults(<<re_permuted[n]>>).d[re_permuted[n][1]]
              /\ re_first[1].f[re_permuted[n][1]]
                     = NNLSEvalFittingResults(<<re_permuted[n]>>).f[re_permuted[n][1]]
        /\ \A c \in Coords \ Range(Keys(re_results)) :
              re_first[1].spectrum[c] = Zeros(NBins)
        /\ DOMAIN re_first[1].d = Range(Keys(re_results))
        /\ DOMAIN re_first[1].f = Range(Keys(re_results))

C28_Witness ==
    /\ Reassembled
    /\ Len(re_results) = Cardinality(Coords)
    /\ re_permuted # re_results
    /\ \E n \in 1..Len(re_results) : Len(re_first[1].d[re_results[n][1]]) = 2

\* the first set_options call after construction repeated the options the
\* constructor applied
RepeatedOptions ==
    /\ seg_calls = 1
    /\ seg_call.fixed_component = seg_config.options.fixed_component
    /\ seg_call.fixed_t1 = seg_config.options.fixed_t1
    /\ seg_call.reduced_b_values = seg_config.options.reduced_b_values

\* C29: set_options called again with the options the constructor applied
\* succeeds and leaves options, TM, params_fixed.TM, params_fixed.b_values
\* and the boundaries of both stages as they were
C29_SetOptionsIdempotent ==
    RepeatedOptions =>
        /\ ~seg_call.raised
        /\ seg_params.options = seg_call.before.options
        /\ seg_params.TM = seg_call.before.TM
        /\ seg_params.fixed.TM = seg_call.before.fixed.TM
        /\ seg_params.fixed.b_values = seg_call.before.fixed.b_values
        /\ seg_params.fixed.boundaries = seg_call.before.fixed.boundaries
        /\ seg_params.boundaries = seg_call.before.boundaries

\* the last set_options call, the constructor's included, returned
OptionsSet ==
    /\ "TM" \in DOMAIN seg_params
    /\ seg_calls > 0 => ~seg_call.raised

\* C30: after set_options, with fixed_t1 the Stage-1 parameters hold the
\* configured TM and the Stage-2 fit function is bound with TM = None;
\* without fixed_t1 the Stage-2 fit function is bound with the configured TM
\* and the Stage-1 parameters hold no TM; the Stage-1 parameters have one
\* component and the reduced b-values when given, else all b-values
C30_TMOwnedByOneStage ==
    OptionsSet =>
        /\ seg_params.options.fixed_t1 =>
              /\ seg_params.fixed.TM = seg_config.TM
              /\ BoundTM(seg_params) = <<>>
        /\ ~seg_params.options.fixed_t1 =>
              /\ BoundTM(seg_params) = seg_config.TM
              /\ seg_params.fixed.TM = <<>>
        /\ seg_params.fixed.n_components = 1
        /\ seg_params.fixed.b_values =
              IF seg_params.options.reduced_b_values # <<>>
              THEN seg_params.options.reduced_b_values[1]
              ELSE seg_params.b_values

=============================================================================
